---- MODULE Spec2Model ----
(***************************************************************************)
(* A model of hobbes/net.H: the type-directed codec io<T> (write, blocking *)
(* read, and the resumable prepare/accum reader), the session handshake    *)
(* initSession, the synchronous stub RPCFunc and the asynchronous stub     *)
(* AsyncRPCFunc with its scheduler (DEFINE_ASYNC_NET_CLIENT).              *)
(*                                                                         *)
(* Values are modelled by what they denote (numbers, sequences, maps) and  *)
(* memory by its little-endian byte image: the x86-64 Linux builds of      *)
(* .github/workflows/build.yml, where size_t is the 8-byte "long".         *)
(***************************************************************************)
EXTENDS Integers, Sequences, FiniteSets, TLC

(***************************************************************************)
(* Bounds of the model.                                                    *)
(***************************************************************************)
\* longest dynamic sequence / string / map among the values written
MaxLen == 2
\* largest number of bytes the peer hands to the socket in one delivery
MaxChunk == 2

(***************************************************************************)
(* Bytes and memory images.                                                *)
(***************************************************************************)
Min(a, b) == IF a < b THEN a ELSE b

\* the first n elements of s, and s without them
Take(s, n) == SubSeq(s, 1, n)
Drop(s, n) == SubSeq(s, n + 1, Len(s))

RECURSIVE Concat(_)
Concat(ss) == IF ss = <<>> THEN <<>> ELSE Head(ss) \o Concat(Tail(ss))

\* the w bytes at &n of an unsigned integer n on the (little-endian) host
RECURSIVE ToLE(_, _)
ToLE(n, w) == IF w = 0 THEN <<>> ELSE <<n % 256>> \o ToLE(n \div 256, w - 1)

\* the unsigned integer whose bytes in memory are bs
RECURSIVE FromLE(_)
FromLE(bs) == IF bs = <<>> THEN 0 ELSE Head(bs) + 256 * FromLE(Tail(bs))

\* memory mem after bs has been stored at byte offset off
Overlay(mem, off, bs) ==
  [i \in 1..Len(mem) |->
     IF i > off /\ i <= off + Len(bs) THEN bs[i - off] ELSE mem[i]]

\* the integer of width w at x after bs has been stored at (uint8_t*)&x + off
SetBytes(x, w, off, bs) == FromLE(Overlay(ToLE(x, w), off, bs))

(***************************************************************************)
(* Shapes: the static types T that io<T> is specialised for.               *)
(***************************************************************************)
Prim(w)      == [k |-> "prim", w |-> w]
Unit         == [k |-> "unit"]
Enum(rep)    == [k |-> "enum", rep |-> rep]
Alias(of)    == [k |-> "alias", of |-> of]
Variant(cs)  == [k |-> "variant", cs |-> cs]
NVariant(cs) == [k |-> "nvariant", cs |-> cs]
Pair(a, b)   == [k |-> "pair", a |-> a, b |-> b]
FArr(e, n)   == [k |-> "farr", e |-> e, n |-> n]
Vec(e)       == [k |-> "vec", e |-> e]
Map(key, val) == [k |-> "map", key |-> key, val |-> val]
String       == [k |-> "string"]
Tuple(fs)    == [k |-> "tuple", fs |-> fs]
Struct(fs)   == [k |-> "struct", fs |-> fs]

U8    == Prim(1)
I16   == Prim(2)
U32   == Prim(4)
SizeT == Prim(8)

\* io<T>::can_memcpy
RECURSIVE can_memcpy(_)
can_memcpy(T) ==
  CASE T.k = "prim"     -> TRUE
    [] T.k = "unit"     -> FALSE
    [] T.k = "enum"     -> TRUE
    [] T.k = "alias"    -> can_memcpy(T.of)
    [] T.k = "variant"  -> FALSE
    [] T.k = "nvariant" -> can_memcpy(Variant(T.cs))
    [] T.k = "pair"     -> FALSE
    [] T.k = "farr"     -> FALSE
    [] T.k = "vec"      -> FALSE
    [] T.k = "map"      -> FALSE
    [] T.k = "string"   -> FALSE
    [] T.k = "tuple"    -> FALSE
    [] T.k = "struct"   -> FALSE

\* sizeof(T) of a memcopyable T: a scalar, an enumeration over one, an alias of one
RECURSIVE SizeOf(_)
SizeOf(T) ==
  CASE T.k = "prim"  -> T.w
    [] T.k = "enum"  -> SizeOf(T.rep)
    [] T.k = "alias" -> SizeOf(T.of)

\* a faulty MemImage: Len(xs) bytes are taken, not sizeof(T) * Len(xs)
MemImageCount(T, xs) ==
  Take(Concat([i \in 1..Len(xs) |-> ToLE(xs[i], SizeOf(T))]), Len(xs))

\* the sizeof(T) * Len(xs) bytes at &xs[0] of contiguous memcopyable elements
MemImage(T, xs) == Concat([i \in 1..Len(xs) |-> ToLE(xs[i], SizeOf(T))])

\* the n elements of width w whose memory is mem
FromImage(mem, w, n) ==
  [i \in 1..n |-> FromLE(SubSeq(mem, (i - 1) * w + 1, i * w))]

\* the keys of a std::map in iteration (ascending) order
RECURSIVE KeysInOrder(_)
KeysInOrder(S) ==
  IF S = {} THEN <<>>
  ELSE LET m == CHOOSE a \in S : \A b \in S : a <= b
       IN  <<m>> \o KeysInOrder(S \ {m})

\* T(): a value-initialised object
RECURSIVE Default(_)
Default(T) ==
  CASE T.k = "prim"     -> 0
    [] T.k = "unit"     -> <<>>
    [] T.k = "enum"     -> 0
    [] T.k = "alias"    -> Default(T.of)
    [] T.k = "variant"  -> <<0, Default(T.cs[1])>>
    [] T.k = "nvariant" -> <<0, Default(T.cs[1])>>
    [] T.k = "pair"     -> <<Default(T.a), Default(T.b)>>
    [] T.k = "farr"     -> [i \in 1..T.n |-> Default(T.e)]
    [] T.k = "vec"      -> <<>>
    [] T.k = "map"      -> <<>>
    [] T.k = "string"   -> <<>>
    [] T.k = "tuple"    -> [i \in 1..Len(T.fs) |-> Default(T.fs[i])]
    [] T.k = "struct"   -> [i \in 1..Len(T.fs) |-> Default(T.fs[i])]

\* std::vector<T>::resize(n) and std::string::resize(n)
Resize(T, x, n) ==
  [i \in 1..n |-> IF i <= Len(x) THEN x[i] ELSE Default(T)]

(***************************************************************************)
(* io<T>::write: the bytes sendData is handed, in order.                   *)
(***************************************************************************)
RECURSIVE write(_, _)

writePrim(T, x) == ToLE(x, T.w)

writeEnum(T, x) == write(T.rep, x)

writeAlias(T, x) == write(T.of, x)

\* x = <<tag, payload>>
writeVariant(T, x) == write(U32, x[1]) \o write(T.cs[x[1] + 1], x[2])

writePair(T, x) == write(T.a, x[1]) \o write(T.b, x[2])

FixedArrMemcpyWrite(T, x) == MemImage(T.e, x)

FixedArrIterWrite(T, x) == Concat([i \in 1..T.n |-> write(T.e, x[i])])

writeVecMemcpy(T, x) ==
  write(SizeT, Len(x)) \o (IF Len(x) > 0 THEN MemImage(T.e, x) ELSE <<>>)

writeVecIter(T, x) ==
  write(SizeT, Len(x)) \o Concat([i \in 1..Len(x) |-> write(T.e, x[i])])

\* x is a function from its keys to their values
writeMap(T, x) ==
  LET ks == KeysInOrder(DOMAIN x)
  IN  write(SizeT, Len(ks))
        \o Concat([i \in 1..Len(ks) |->
                     write(T.key, ks[i]) \o write(T.val, x[ks[i]])])

writeString(T, x) == write(SizeT, Len(x)) \o x

writeTuple(T, x) == Concat([i \in 1..Len(T.fs) |-> write(T.fs[i], x[i])])

write(T, x) ==
  CASE T.k = "prim"     -> writePrim(T, x)
    [] T.k = "unit"     -> <<>>
    [] T.k = "enum"     -> writeEnum(T, x)
    [] T.k = "alias"    -> writeAlias(T, x)
    [] T.k = "variant"  -> writeVariant(T, x)
    [] T.k = "nvariant" -> write(Variant(T.cs), x)
    [] T.k = "pair"     -> writePair(T, x)
    [] T.k = "farr"     -> IF can_memcpy(T.e) THEN FixedArrMemcpyWrite(T, x)
                           ELSE FixedArrIterWrite(T, x)
    [] T.k = "vec"      -> IF can_memcpy(T.e) THEN writeVecMemcpy(T, x)
                           ELSE writeVecIter(T, x)
    [] T.k = "map"      -> writeMap(T, x)
    [] T.k = "string"   -> writeString(T, x)
    [] T.k = "tuple"    -> writeTuple(T, x)
    [] T.k = "struct"   -> write(Tuple(T.fs), x)

(***************************************************************************)
(* The socket as the client sees it: inb holds the bytes that have arrived *)
(* and are not yet received, closed tells that the peer has shut down its  *)
(* side (an orderly close, seen once inb is drained).                      *)
(***************************************************************************)
Sock(inb, closed) == [inb |-> inb, closed |-> closed]

\* recvData(socket, d, sz): returns when sz bytes are stored ("ok"), throws when
\* recv returns 0 ("PeerClosed"), and otherwise is still waiting ("block")
recvData(s, sz) ==
  IF sz = 0 THEN [st |-> "ok", bytes |-> <<>>, s |-> s]
  ELSE IF Len(s.inb) >= sz
    THEN [st |-> "ok", bytes |-> Take(s.inb, sz), s |-> Sock(Drop(s.inb, sz), s.closed)]
  ELSE IF s.closed
    THEN [st |-> "PeerClosed", bytes |-> s.inb, s |-> Sock(<<>>, TRUE)]
  ELSE [st |-> "block", bytes |-> <<>>, s |-> s]

(***************************************************************************)
(* io<T>::read, the blocking read into a value-initialised target:         *)
(* [st, v, s] with st as for recvData, v the value read and s the socket   *)
(* afterwards.                                                             *)
(***************************************************************************)
RECURSIVE read(_, _)

\* reads the shapes Ts one after the other, appending the values to acc
RECURSIVE readSeq(_, _, _)
readSeq(Ts, s, acc) ==
  IF Ts = <<>> THEN [st |-> "ok", v |-> acc, s |-> s]
  ELSE LET h == read(Head(Ts), s)
       IN  IF h.st # "ok" THEN [st |-> h.st, v |-> acc, s |-> h.s]
           ELSE readSeq(Tail(Ts), h.s, Append(acc, h.v))

readPrim(T, s) ==
  LET d == recvData(s, T.w)
  IN  [st |-> d.st, v |-> IF d.st = "ok" THEN FromLE(d.bytes) ELSE 0, s |-> d.s]

readEnum(T, s) == read(T.rep, s)

readAlias(T, s) == read(T.of, s)

readVariant(T, s) ==
  LET t == read(U32, s)
  IN  IF t.st # "ok" THEN [st |-> t.st, v |-> Default(T), s |-> t.s]
      ELSE LET p == read(T.cs[t.v + 1], t.s)
           IN  [st |-> p.st, v |-> <<t.v, p.v>>, s |-> p.s]

readPair(T, s) ==
  LET p == readSeq(<<T.a, T.b>>, s, <<>>)
  IN  [st |-> p.st, v |-> IF p.st = "ok" THEN p.v ELSE Default(T), s |-> p.s]

FixedArrMemcpyRead(T, s) ==
  LET w == SizeOf(T.e)
      d == recvData(s, w * T.n)
  IN  [st |-> d.st,
       v  |-> IF d.st = "ok" THEN FromImage(d.bytes, w, T.n) ELSE Default(T),
       s  |-> d.s]

FixedArrIterRead(T, s) ==
  LET p == readSeq([i \in 1..T.n |-> T.e], s, <<>>)
  IN  [st |-> p.st, v |-> IF p.st = "ok" THEN p.v ELSE Default(T), s |-> p.s]

\* size_t n; read n; x->resize(n); if (n > 0) recvData(s, &(*x)[0], n)
readVecMemcpy(T, s) ==
  LET w == SizeOf(T.e)
      n == read(SizeT, s)
  IN  IF n.st # "ok" THEN [st |-> n.st, v |-> <<>>, s |-> n.s]
      ELSE LET x == Resize(T.e, <<>>, n.v)
               d == IF n.v > 0 THEN recvData(n.s, n.v)
                    ELSE [st |-> "ok", bytes |-> <<>>, s |-> n.s]
           IN  [st |-> d.st,
                v  |-> IF d.st = "ok"
                       THEN FromImage(Overlay(MemImage(T.e, x), 0, d.bytes), w, n.v)
                       ELSE x,
                s  |-> d.s]

readVecIter(T, s) ==
  LET n == read(SizeT, s)
  IN  IF n.st # "ok" THEN [st |-> n.st, v |-> <<>>, s |-> n.s]
      ELSE LET p == readSeq([i \in 1..n.v |-> T.e], n.s, <<>>)
           IN  [st |-> p.st,
                v  |-> IF p.st = "ok" THEN p.v ELSE Resize(T.e, p.v, n.v),
                s  |-> p.s]

\* (*x)[k] = t
MapAssign(x, k, t) ==
  [j \in DOMAIN x \cup {k} |-> IF j = k THEN t ELSE x[j]]

\* x->insert(std::pair<K,T>(k, t))
MapInsert(x, k, t) ==
  IF k \in DOMAIN x THEN x ELSE MapAssign(x, k, t)

\* the loop of io<std::map<K,T>>::read with n entries still to read
RECURSIVE readMapLoop(_, _, _, _)
readMapLoop(T, n, s, x) ==
  IF n = 0 THEN [st |-> "ok", v |-> x, s |-> s]
  ELSE LET p == readSeq(<<T.key, T.val>>, s, <<>>)
       IN  IF p.st # "ok" THEN [st |-> p.st, v |-> x, s |-> p.s]
           ELSE readMapLoop(T, n - 1, p.s, MapAssign(x, p.v[1], p.v[2]))

readMap(T, s) ==
  LET n == read(SizeT, s)
  IN  IF n.st # "ok" THEN [st |-> n.st, v |-> <<>>, s |-> n.s]
      ELSE readMapLoop(T, n.v, n.s, <<>>)

readString(T, s) ==
  LET n == read(SizeT, s)
  IN  IF n.st # "ok" THEN [st |-> n.st, v |-> <<>>, s |-> n.s]
      ELSE LET d == recvData(n.s, n.v)
           IN  [st |-> d.st,
                v  |-> IF d.st = "ok" THEN d.bytes ELSE Resize(U8, <<>>, n.v),
                s  |-> d.s]

readTuple(T, s) ==
  LET p == readSeq(T.fs, s, <<>>)
  IN  [st |-> p.st, v |-> IF p.st = "ok" THEN p.v ELSE Default(T), s |-> p.s]

read(T, s) ==
  CASE T.k = "prim"     -> readPrim(T, s)
    [] T.k = "unit"     -> [st |-> "ok", v |-> <<>>, s |-> s]
    [] T.k = "enum"     -> readEnum(T, s)
    [] T.k = "alias"    -> readAlias(T, s)
    [] T.k = "variant"  -> readVariant(T, s)
    [] T.k = "nvariant" -> read(Variant(T.cs), s)
    [] T.k = "pair"     -> readPair(T, s)
    [] T.k = "farr"     -> IF can_memcpy(T.e) THEN FixedArrMemcpyRead(T, s)
                           ELSE FixedArrIterRead(T, s)
    [] T.k = "vec"      -> IF can_memcpy(T.e) THEN readVecMemcpy(T, s)
                           ELSE readVecIter(T, s)
    [] T.k = "map"      -> readMap(T, s)
    [] T.k = "string"   -> readString(T, s)
    [] T.k = "tuple"    -> readTuple(T, s)
    [] T.k = "struct"   -> read(Tuple(T.fs), s)

(***************************************************************************)
(* The partial (non-blocking) receive.                                     *)
(***************************************************************************)
\* recvDataPartial(socket, d, sz): [n, bytes, s, err].  recv returns 0 for an
\* orderly close and for a request of 0 bytes that finds data queued; it fails
\* with EAGAIN when nothing is queued on the open non-blocking socket.
recvDataPartial(s, sz) ==
  IF s.inb = <<>>
  THEN IF s.closed
       THEN [n |-> 0, bytes |-> <<>>, s |-> s, err |-> "PeerClosed"]
       ELSE [n |-> 0, bytes |-> <<>>, s |-> s, err |-> ""]
  ELSE IF sz = 0
       THEN [n |-> 0, bytes |-> <<>>, s |-> s, err |-> "PeerClosed"]
       ELSE LET di == Min(sz, Len(s.inb))
            IN  [n |-> di, bytes |-> Take(s.inb, di),
                 s |-> Sock(Drop(s.inb, di), s.closed), err |-> ""]

(***************************************************************************)
(* io<T>::async_read_state, prepare and accum.                             *)
(***************************************************************************)
\* a value-initialised async_read_state (new (rs) RSType())
RECURSIVE zeroState(_)
zeroState(T) ==
  CASE T.k = "prim"     -> 0
    [] T.k = "unit"     -> 0
    [] T.k = "enum"     -> 0
    [] T.k = "alias"    -> zeroState(T.of)
    [] T.k \in {"variant", "nvariant"} ->
         [readTag |-> FALSE, tagState |-> 0,
          payloadState |-> <<0, zeroState(T.cs[1])>>]
    [] T.k = "pair"     ->
         [readFirst |-> FALSE, fstState |-> zeroState(T.a),
          sndState |-> zeroState(T.b)]
    [] T.k = "farr"     ->
         IF can_memcpy(T.e) THEN [bytesRead |-> 0]
         ELSE [idx |-> 0, elemS |-> zeroState(T.e)]
    [] T.k = "vec"      ->
         IF can_memcpy(T.e)
         THEN [readLen |-> FALSE, lenS |-> 0, bytesRead |-> 0, byteLen |-> 0]
         ELSE [readLen |-> FALSE, lenS |-> 0, idx |-> 0, elemS |-> zeroState(T.e)]
    [] T.k = "map"      ->
         [readS |-> "LenS", lenS |-> 0, len |-> 0,
          kS |-> zeroState(T.key), k |-> Default(T.key),
          tS |-> zeroState(T.val), t |-> Default(T.val)]
    [] T.k = "string"   ->
         [readLen |-> FALSE, lenS |-> 0, bytesRead |-> 0, byteLen |-> 0]
    [] T.k \in {"tuple", "struct"} -> <<0, zeroState(T.fs[1])>>

\* io<T>::prepare(&o): the fields it does not assign keep what they held
RECURSIVE prepare(_, _)

\* tupAsyncInit / variantAsyncInit: new (rs) RSType(); io<T>::prepare(rs)
Fresh(T) == prepare(T, zeroState(T))

preparePair(T, o) ==
  [o EXCEPT !.readFirst = TRUE,
            !.fstState = prepare(T.a, o.fstState),
            !.sndState = prepare(T.b, o.sndState)]

prepareVariant(T, o) == [o EXCEPT !.readTag = TRUE, !.tagState = prepare(U32, o.tagState)]

prepareTuple(T, o) == <<0, Fresh(T.fs[1])>>

prepare(T, o) ==
  CASE T.k = "prim"     -> 0
    [] T.k = "unit"     -> o
    [] T.k = "enum"     -> 0
    [] T.k = "alias"    -> prepare(T.of, o)
    [] T.k = "variant"  -> prepareVariant(T, o)
    [] T.k = "nvariant" -> prepare(Variant(T.cs), o)
    [] T.k = "pair"     -> preparePair(T, o)
    [] T.k = "farr"     ->
         IF can_memcpy(T.e) THEN [o EXCEPT !.bytesRead = 0]
         ELSE [o EXCEPT !.idx = 0, !.elemS = prepare(T.e, o.elemS)]
    [] T.k = "vec"      -> [o EXCEPT !.readLen = TRUE, !.lenS = prepare(SizeT, o.lenS)]
    [] T.k = "map"      -> [o EXCEPT !.readS = "LenS", !.lenS = prepare(SizeT, o.lenS)]
    [] T.k = "string"   -> [o EXCEPT !.readLen = TRUE, !.lenS = prepare(SizeT, o.lenS)]
    [] T.k = "tuple"    -> prepareTuple(T, o)
    [] T.k = "struct"   -> prepare(Tuple(T.fs), o)

\* io<T>::accum(s, &o, &x): [r, o, x, s, err]; r is the value returned, err the
\* exception thrown ("" for none), o, x and s the state, target and socket after
RECURSIVE accum(_, _, _, _)

Thrown(o, x, s, e) == [r |-> FALSE, o |-> o, x |-> x, s |-> s, err |-> e]

\* *o += recvDataPartial(s, (uint8_t*)x + *o, w - *o); return *o == w;
accumBytes(w, s, o, x) ==
  LET d  == recvDataPartial(s, w - o)
      o2 == (o + d.n) % 256
  IN  IF d.err # "" THEN Thrown(o, x, s, d.err)
      ELSE [r |-> (o2 = w), o |-> o2, x |-> SetBytes(x, w, o, d.bytes),
            s |-> d.s, err |-> ""]

accumPrim(T, s, o, x) == accumBytes(T.w, s, o, x)

accumEnum(T, s, o, x) == accumBytes(SizeOf(T.rep), s, o, x)

accumAlias(T, s, o, x) == accum(T.of, s, o, x)

\* a faulty accumVariant: when the payload is complete the reader goes back to
\* reading a tag
accumVariantRestarts(T, s, o, x) ==
  IF o.readTag
  THEN LET a == accum(U32, s, o.tagState, x[1])
       IN  IF a.err # "" THEN Thrown(o, x, s, a.err)
           ELSE IF a.r
           THEN [r |-> FALSE,
                 o |-> [o EXCEPT !.readTag = FALSE, !.tagState = a.o,
                                 !.payloadState = <<a.x, Fresh(T.cs[a.x + 1])>>],
                 x |-> <<a.x, Default(T.cs[a.x + 1])>>,
                 s |-> a.s, err |-> ""]
           ELSE [r |-> FALSE, o |-> [o EXCEPT !.tagState = a.o],
                 x |-> <<a.x, x[2]>>, s |-> a.s, err |-> ""]
  ELSE LET a == accum(T.cs[x[1] + 1], s, o.payloadState[2], x[2])
       IN  IF a.err # "" THEN Thrown(o, x, s, a.err)
           ELSE [r |-> a.r,
                 o |-> [o EXCEPT !.payloadState = <<o.payloadState[1], a.o>>,
                                 !.readTag = a.r],
                 x |-> <<x[1], a.x>>, s |-> a.s, err |-> ""]

accumVariant(T, s, o, x) ==
  IF o.readTag
  THEN LET a == accum(U32, s, o.tagState, x[1])
       IN  IF a.err # "" THEN Thrown(o, x, s, a.err)
           ELSE IF a.r
           THEN [r |-> FALSE,
                 o |-> [o EXCEPT !.readTag = FALSE, !.tagState = a.o,
                                 !.payloadState = <<a.x, Fresh(T.cs[a.x + 1])>>],
                 x |-> <<a.x, Default(T.cs[a.x + 1])>>,
                 s |-> a.s, err |-> ""]
           ELSE [r |-> FALSE, o |-> [o EXCEPT !.tagState = a.o],
                 x |-> <<a.x, x[2]>>, s |-> a.s, err |-> ""]
  ELSE LET a == accum(T.cs[x[1] + 1], s, o.payloadState[2], x[2])
       IN  IF a.err # "" THEN Thrown(o, x, s, a.err)
           ELSE [r |-> a.r,
                 o |-> [o EXCEPT !.payloadState = <<o.payloadState[1], a.o>>],
                 x |-> <<x[1], a.x>>, s |-> a.s, err |-> ""]

accumPair(T, s, o, x) ==
  IF o.readFirst
  THEN LET a == accum(T.a, s, o.fstState, x[1])
       IN  IF a.err # "" THEN Thrown(o, x, s, a.err)
           ELSE [r |-> FALSE,
                 o |-> [o EXCEPT !.fstState = a.o, !.readFirst = ~a.r],
                 x |-> <<a.x, x[2]>>, s |-> a.s, err |-> ""]
  ELSE LET a == accum(T.b, s, o.sndState, x[2])
       IN  IF a.err # "" THEN Thrown(o, x, s, a.err)
           ELSE [r |-> a.r, o |-> [o EXCEPT !.sndState = a.o],
                 x |-> <<x[1], a.x>>, s |-> a.s, err |-> ""]

FixedArrMemcpyAccum(T, s, o, x) ==
  LET w   == SizeOf(T.e)
      len == w * T.n
      d   == recvDataPartial(s, len - o.bytesRead)
  IN  IF d.err # "" THEN Thrown(o, x, s, d.err)
      ELSE [r |-> (o.bytesRead + d.n = len),
            o |-> [o EXCEPT !.bytesRead = o.bytesRead + d.n],
            x |-> FromImage(Overlay(MemImage(T.e, x), o.bytesRead, d.bytes), w, T.n),
            s |-> d.s, err |-> ""]

\* (*x)[o->idx] with idx >= N lies outside the array: what is stored there is
\* not part of x
FixedArrIterAccum(T, s, o, x) ==
  LET in == o.idx < T.n
      a  == accum(T.e, s, o.elemS, IF in THEN x[o.idx + 1] ELSE Default(T.e))
  IN  IF a.err # "" THEN Thrown(o, x, s, a.err)
      ELSE LET idx2 == IF a.r THEN o.idx + 1 ELSE o.idx
           IN  [r |-> (idx2 = T.n),
                o |-> [idx |-> idx2,
                       elemS |-> IF a.r THEN prepare(T.e, a.o) ELSE a.o],
                x |-> IF in THEN [x EXCEPT ![o.idx + 1] = a.x] ELSE x,
                s |-> a.s, err |-> ""]

accumVecMemcpy(T, s, o, x) ==
  LET w == SizeOf(T.e)
  IN  IF o.readLen
      THEN LET a == accum(SizeT, s, o.lenS, o.byteLen)
           IN  IF a.err # "" THEN Thrown(o, x, s, a.err)
               ELSE IF a.r
               THEN [r |-> (0 = w * a.x),
                     o |-> [readLen |-> FALSE, lenS |-> a.o, bytesRead |-> 0,
                            byteLen |-> w * a.x],
                     x |-> Resize(T.e, x, a.x), s |-> a.s, err |-> ""]
               ELSE [r |-> FALSE, o |-> [o EXCEPT !.lenS = a.o, !.byteLen = a.x],
                     x |-> x, s |-> a.s, err |-> ""]
      ELSE LET d == recvDataPartial(s, o.byteLen - o.bytesRead)
           IN  IF d.err # "" THEN Thrown(o, x, s, d.err)
               ELSE [r |-> (o.bytesRead + d.n = o.byteLen),
                     o |-> [o EXCEPT !.bytesRead = o.bytesRead + d.n],
                     x |-> FromImage(Overlay(MemImage(T.e, x), o.bytesRead, d.bytes),
                                     w, Len(x)),
                     s |-> d.s, err |-> ""]

accumVecIter(T, s, o, x) ==
  IF o.readLen
  THEN LET a == accum(SizeT, s, o.lenS, o.idx)
       IN  IF a.err # "" THEN Thrown(o, x, s, a.err)
           ELSE IF a.r
           THEN [r |-> (0 = a.x),
                 o |-> [readLen |-> FALSE, lenS |-> a.o, idx |-> 0,
                        elemS |-> prepare(T.e, o.elemS)],
                 x |-> Resize(T.e, x, a.x), s |-> a.s, err |-> ""]
           ELSE [r |-> FALSE, o |-> [o EXCEPT !.lenS = a.o, !.idx = a.x],
                 x |-> x, s |-> a.s, err |-> ""]
  ELSE LET a == accum(T.e, s, o.elemS, x[o.idx + 1])
       IN  IF a.err # "" THEN Thrown(o, x, s, a.err)
           ELSE LET idx2 == IF a.r THEN o.idx + 1 ELSE o.idx
                IN  [r |-> (idx2 = Len(x)),
                     o |-> [o EXCEPT !.idx = idx2,
                                     !.elemS = IF a.r THEN prepare(T.e, a.o) ELSE a.o],
                     x |-> [x EXCEPT ![o.idx + 1] = a.x], s |-> a.s, err |-> ""]

accumMap(T, s, o, x) ==
  CASE o.readS = "LenS" ->
         LET a == accum(SizeT, s, o.lenS, o.len)
         IN  IF a.err # "" THEN Thrown(o, x, s, a.err)
             ELSE IF a.r
             THEN [r |-> (a.x = 0),
                   o |-> [o EXCEPT !.readS = "KS", !.lenS = a.o, !.len = a.x,
                                   !.kS = prepare(T.key, o.kS)],
                   x |-> x, s |-> a.s, err |-> ""]
             ELSE [r |-> FALSE, o |-> [o EXCEPT !.lenS = a.o, !.len = a.x],
                   x |-> x, s |-> a.s, err |-> ""]
    [] o.readS = "KS" ->
         LET a == accum(T.key, s, o.kS, o.k)
         IN  IF a.err # "" THEN Thrown(o, x, s, a.err)
             ELSE IF a.r
             THEN [r |-> (o.len = 0),
                   o |-> [o EXCEPT !.readS = "TS", !.kS = a.o, !.k = a.x,
                                   !.tS = prepare(T.val, o.tS)],
                   x |-> x, s |-> a.s, err |-> ""]
             ELSE [r |-> (o.len = 0), o |-> [o EXCEPT !.kS = a.o, !.k = a.x],
                   x |-> x, s |-> a.s, err |-> ""]
    [] o.readS = "TS" ->
         LET a == accum(T.val, s, o.tS, o.t)
         IN  IF a.err # "" THEN Thrown(o, x, s, a.err)
             ELSE IF a.r
             THEN [r |-> (o.len - 1 = 0),
                   o |-> [o EXCEPT !.readS = "KS", !.tS = a.o, !.t = a.x,
                                   !.len = o.len - 1,
                                   !.kS = prepare(T.key, o.kS)],
                   x |-> MapInsert(x, o.k, a.x), s |-> a.s, err |-> ""]
             ELSE [r |-> (o.len = 0), o |-> [o EXCEPT !.tS = a.o, !.t = a.x],
                   x |-> x, s |-> a.s, err |-> ""]

accumString(T, s, o, x) ==
  IF o.readLen
  THEN LET a == accum(SizeT, s, o.lenS, o.byteLen)
       IN  IF a.err # "" THEN Thrown(o, x, s, a.err)
           ELSE IF a.r
           THEN [r |-> (0 = a.x),
                 o |-> [readLen |-> FALSE, lenS |-> a.o, bytesRead |-> 0,
                        byteLen |-> a.x],
                 x |-> Resize(U8, x, a.x), s |-> a.s, err |-> ""]
           ELSE [r |-> FALSE, o |-> [o EXCEPT !.lenS = a.o, !.byteLen = a.x],
                 x |-> x, s |-> a.s, err |-> ""]
  ELSE LET d == recvDataPartial(s, o.byteLen - o.bytesRead)
       IN  IF d.err # "" THEN Thrown(o, x, s, d.err)
           ELSE [r |-> (o.bytesRead + d.n = o.byteLen),
                 o |-> [o EXCEPT !.bytesRead = o.bytesRead + d.n],
                 x |-> Overlay(x, o.bytesRead, d.bytes), s |-> d.s, err |-> ""]

\* o = <<index of the field being read, that field's state>>
accumTuple(T, s, o, x) ==
  LET i == o[1]
      a == accum(T.fs[i + 1], s, o[2], x[i + 1])
  IN  IF a.err # "" THEN Thrown(o, x, s, a.err)
      ELSE IF a.r
      THEN IF i + 1 = Len(T.fs)
           THEN [r |-> TRUE, o |-> <<i + 1, a.o>>,
                 x |-> [x EXCEPT ![i + 1] = a.x], s |-> a.s, err |-> ""]
           ELSE [r |-> FALSE, o |-> <<i + 1, Fresh(T.fs[i + 2])>>,
                 x |-> [x EXCEPT ![i + 1] = a.x], s |-> a.s, err |-> ""]
      ELSE [r |-> FALSE, o |-> <<i, a.o>>,
            x |-> [x EXCEPT ![i + 1] = a.x], s |-> a.s, err |-> ""]

accum(T, s, o, x) ==
  CASE T.k = "prim"     -> accumPrim(T, s, o, x)
    [] T.k = "unit"     -> [r |-> TRUE, o |-> o, x |-> x, s |-> s, err |-> ""]
    [] T.k = "enum"     -> accumEnum(T, s, o, x)
    [] T.k = "alias"    -> accumAlias(T, s, o, x)
    [] T.k = "variant"  -> accumVariant(T, s, o, x)
    [] T.k = "nvariant" -> accum(Variant(T.cs), s, o, x)
    [] T.k = "pair"     -> accumPair(T, s, o, x)
    [] T.k = "farr"     -> IF can_memcpy(T.e) THEN FixedArrMemcpyAccum(T, s, o, x)
                           ELSE FixedArrIterAccum(T, s, o, x)
    [] T.k = "vec"      -> IF can_memcpy(T.e) THEN accumVecMemcpy(T, s, o, x)
                           ELSE accumVecIter(T, s, o, x)
    [] T.k = "map"      -> accumMap(T, s, o, x)
    [] T.k = "string"   -> accumString(T, s, o, x)
    [] T.k = "tuple"    -> accumTuple(T, s, o, x)
    [] T.k = "struct"   -> accum(Tuple(T.fs), s, o, x)

(***************************************************************************)
(* The values written in the model.                                        *)
(***************************************************************************)
\* a scalar of width w whose bytes differ from one another
Pat(w) == FromLE([i \in 1..w |-> IF i <= 3 THEN i ELSE 0])

\* the largest scalar of width w the model writes (INT32_MAX from 4 bytes on)
MaxVal(w) == IF w = 1 THEN 255 ELSE IF w = 2 THEN 65535 ELSE 2147483647

PrimVals(w) == {0, Pat(w), MaxVal(w)}

\* the characters of the strings written (NUL among them)
Chars == {0, 65}

SeqsUpTo(S, n) == UNION {[1..m -> S] : m \in 0..n}

RECURSIVE Values(_)

\* the value tuples of the field shapes fs
RECURSIVE Products(_)
Products(fs) ==
  IF fs = <<>> THEN {<<>>}
  ELSE {<<h>> \o t : h \in Values(Head(fs)), t \in Products(Tail(fs))}

Values(T) ==
  CASE T.k = "prim"     -> PrimVals(T.w)
    [] T.k = "unit"     -> {<<>>}
    [] T.k = "enum"     -> Values(T.rep)
    [] T.k = "alias"    -> Values(T.of)
    [] T.k \in {"variant", "nvariant"} ->
         UNION {{<<i - 1, p>> : p \in Values(T.cs[i])} : i \in 1..Len(T.cs)}
    [] T.k = "pair"     -> {<<a, b>> : a \in Values(T.a), b \in Values(T.b)}
    [] T.k = "farr"     -> [1..T.n -> Values(T.e)]
    [] T.k = "vec"      -> SeqsUpTo(Values(T.e), MaxLen)
    [] T.k = "map"      ->
         UNION {[S -> Values(T.val)] :
                  S \in {K \in SUBSET Values(T.key) : Cardinality(K) <= MaxLen}}
    [] T.k = "string"   -> SeqsUpTo(Chars, MaxLen)
    [] T.k \in {"tuple", "struct"} -> Products(T.fs)

\* the shapes read and written in the model
Shapes ==
  << U8, I16, U32, Unit, Enum(I16), Alias(I16),
     Pair(U8, I16), Pair(I16, Unit),
     Tuple(<<I16>>), Tuple(<<U8, I16, U8>>), Tuple(<<U8, Unit>>),
     FArr(I16, 2), FArr(Pair(U8, U8), 2),
     Vec(U8), Vec(I16), Vec(Pair(U8, U8)), Vec(String),
     Map(U8, I16), String,
     Variant(<<U8, Vec(U8), Unit>>), NVariant(<<I16, Unit>>),
     Struct(<<U8, String>>) >>

\* what follows a value on the stream: the first byte of the next reply
Trailer == <<170>>

(***************************************************************************)
(* State.                                                                  *)
(***************************************************************************)
VARIABLES
  sock,       \* the client's socket: [inb, closed]
  peerq,      \* the bytes the peer has still to send, in order
  outb,       \* the bytes the client has written to the socket, in order
  cT,         \* codec: the shape T being read
  cX,         \* codec: the value the peer wrote
  cMode,      \* codec: "blocking" (io<T>::read) or "resumable" (prepare/accum)
  pr,         \* codec: the async_read_state
  r,          \* codec: the target of the read
  cRet,       \* codec: "none", then what the last read or accum did:
              \*        "true", "false", or the exception it threw
  cTaken,     \* codec: the number of bytes received from the socket so far
  cBytewise,  \* codec: every accum so far found at most one byte on the socket
  rpcds,      \* handshake: the RPCDefs handed to initSession
  hPc,        \* handshake: where initSession is: "start", "sendDef",
              \*            "recvResult", "recvErr", "live" (returned), "threw"
  hI,         \* handshake: the index in rpcds of the declaration being defined
  hErr,       \* handshake: what initSession threw (<<>> for nothing)
  hReads,     \* handshake: the number of result bytes initSession has read
  hTaken,     \* handshake: the number of bytes initSession has received
  hPeerLog,   \* handshake: the peer's replies so far, each <<result, message>>
  sPc,        \* sync: "idle", or "reading" inside RPCFunc::operator()
  sCall,      \* sync: the call under way or last made: [stub, args, out0, taken0]
  sReply,     \* sync: <<v>> once the peer has answered the call with v
  sResult,    \* sync: <<v>> once the call has returned v
  sThrew,     \* sync: the exception the last call threw ("" for none)
  sBroken,    \* sync: some call on this session has thrown
  sTaken,     \* sync: the number of bytes received from the socket
  sN,         \* sync: the number of calls made
  blocking,   \* async: the socket blocks (O_NONBLOCK is clear)
  ks,         \* async: per stub, its queue of continuations (call numbers)
  aR,         \* async: per stub, its result scratch r
  aPr,        \* async: per stub, its async_read_state pr
  asyncReaders, \* async: the scheduler's queue of readers (stub indexes)
  aIssued,    \* async: the result-bearing calls issued: [stub, k], in order
  aVoid,      \* async: the number of fire-and-forget calls issued
  aFailed,    \* async: the number of calls that threw
  aDelivered, \* async: the continuations invoked: <<k, result>>, in order
  aThrew,     \* async: the exception the last call or step threw ("" for none)
  aLog,       \* async: what the last call or step did, in order
  aDead,      \* async: a step() has thrown on this session
  lPc,        \* client: "none" (not constructed), "ctor" (in the constructor),
              \*         "live", "reconnect" (in reconnect), "gone" (no object)
  this_s,     \* client: the member s, a file descriptor (0: not initialised)
  hFd,        \* client: the descriptor handed to the last initSession
  nextFd,     \* client: the number of sockets connected so far
  closes,     \* client: per descriptor, the number of ::close calls on it
  lIssued,    \* client: the number of calls in aIssued when reconnect was
              \*         last called
  rcFn,       \* receive: the function called, "recvData" or "recvDataPartial"
  rcSz,       \* receive: its argument sz
  rcI,        \* receive: recvData's i
  rcBuf,      \* receive: the bytes stored at d, in order
  rcRet,      \* receive: "running", "returned", or the exception thrown
  rcN,        \* receive: the value recvDataPartial returned
  rcLog,      \* receive: what each recv of the call returned (di or errno)
  rcPos,      \* receive: the bytes of the stream received before the call
  rcAll,      \* receive: the stream the peer sends
  mcPc,       \* dial: where makeConnection is: "none", "start", "loop",
              \*       "returned", "threw"
  mcLocal,    \* dial: localAddr is not empty
  mcLocalAddrs, \* dial: the list localAddrs, each entry its ai_family
  mcAddrs,    \* dial: the list addrs, each entry its ai_family
  mcP,        \* dial: the position of p in addrs (past the end: nullptr)
  mcSockets,  \* dial: the number of sockets socket() has created
  mcOpen,     \* dial: the created sockets not closed
  mcRet,      \* dial: the socket returned (0 for none)
  mcLog       \* dial: per candidate tried, <<position, socket, outcome>>

sockVars  == <<sock, peerq, outb>>
codecVars == <<cT, cX, cMode, pr, r, cRet, cTaken, cBytewise>>
hsVars    == <<rpcds, hPc, hI, hErr, hReads, hTaken, hPeerLog>>
syncVars  == <<sPc, sCall, sReply, sResult, sThrew, sBroken, sTaken, sN>>
asyncVars == <<blocking, ks, aR, aPr, asyncReaders, aIssued, aVoid, aFailed,
               aDelivered, aThrew, aLog, aDead>>
lifeVars  == <<lPc, this_s, hFd, nextFd, closes, lIssued>>
recvVars  == <<rcFn, rcSz, rcI, rcBuf, rcRet, rcN, rcLog, rcPos, rcAll>>
dialVars  == <<mcPc, mcLocal, mcLocalAddrs, mcAddrs, mcP, mcSockets, mcOpen,
               mcRet, mcLog>>
vars      == <<sockVars, codecVars, hsVars, syncVars, asyncVars, lifeVars, recvVars,
               dialVars>>

\* the parts of the state a specification does not use
CodecIdle ==
  /\ cT = Unit /\ cX = <<>> /\ cMode = "none" /\ pr = 0 /\ r = <<>>
  /\ cRet = "none" /\ cTaken = 0 /\ cBytewise = TRUE

HsIdle ==
  /\ rpcds = <<>> /\ hPc = "live" /\ hI = 0 /\ hErr = <<>>
  /\ hReads = 0 /\ hTaken = 0 /\ hPeerLog = <<>>

SyncIdle ==
  /\ sPc = "idle" /\ sCall = <<>> /\ sReply = <<>> /\ sResult = <<>>
  /\ sThrew = "" /\ sBroken = FALSE /\ sTaken = 0 /\ sN = 0

AsyncIdle ==
  /\ blocking = TRUE /\ ks = <<>> /\ aR = <<>> /\ aPr = <<>>
  /\ asyncReaders = <<>> /\ aIssued = <<>> /\ aVoid = 0 /\ aFailed = 0
  /\ aDelivered = <<>>
  /\ aThrew = "" /\ aLog = <<>> /\ aDead = FALSE

DialIdle ==
  /\ mcPc = "none" /\ mcLocal = FALSE /\ mcLocalAddrs = <<>> /\ mcAddrs = <<>>
  /\ mcP = 0 /\ mcSockets = 0 /\ mcOpen = {} /\ mcRet = 0 /\ mcLog = <<>>

RecvIdle ==
  /\ rcFn = "none" /\ rcSz = 0 /\ rcI = 0 /\ rcBuf = <<>> /\ rcRet = "none"
  /\ rcN = 0 /\ rcLog = <<>> /\ rcPos = 0 /\ rcAll = <<>>

\* the sockets a client is given over its life
MaxFds == 3

\* a client constructed on descriptor 1, with no lifecycle operation under way
LifeIdle ==
  /\ lPc = "live" /\ this_s = 1 /\ hFd = 1 /\ nextFd = 1
  /\ closes = [fd \in 1..MaxFds |-> 0]
  /\ lIssued = 0

(***************************************************************************)
(* The codec on its own: one value of one shape written by the peer, read  *)
(* by io<T>::read or by prepare and repeated accum.                        *)
(***************************************************************************)
CodecInit ==
  \E i \in 1..Len(Shapes) :
    \E x \in Values(Shapes[i]) :
      /\ cT = Shapes[i]
      /\ cX = x
      /\ cMode \in {"blocking", "resumable"}
      /\ peerq = write(Shapes[i], x) \o Trailer
      /\ sock = Sock(<<>>, FALSE)
      /\ pr = Fresh(Shapes[i])
      /\ r = Default(Shapes[i])
      /\ cRet = "none"
      /\ cTaken = 0
      /\ cBytewise = TRUE
      /\ outb = <<>>
      /\ HsIdle
      /\ SyncIdle
      /\ AsyncIdle
      /\ LifeIdle
      /\ DialIdle
      /\ RecvIdle

\* what the codec's steps leave alone
CodecRest == UNCHANGED <<outb, hsVars, syncVars, asyncVars, lifeVars, recvVars,
      dialVars>>

\* the peer's next n bytes arrive; a resumable reader is woken before more than
\* MaxChunk bytes queue up
PeerSend(n) ==
  /\ ~sock.closed
  /\ n <= Len(peerq)
  /\ cRet \in {"none", "false"}
  /\ cMode = "blocking" \/ Len(sock.inb) + n <= MaxChunk
  /\ sock' = Sock(sock.inb \o Take(peerq, n), FALSE)
  /\ peerq' = Drop(peerq, n)
  /\ UNCHANGED codecVars
  /\ CodecRest

\* the peer closes the connection; what it had not sent is never sent
PeerClose ==
  /\ ~sock.closed
  /\ cRet \in {"none", "false"}
  /\ sock' = Sock(sock.inb, TRUE)
  /\ UNCHANGED <<peerq, codecVars>>
  /\ CodecRest

\* one call of io<T>::accum(s, &pr, &r)
AccumTick ==
  /\ cMode = "resumable"
  /\ cRet \in {"none", "false"}
  /\ LET a == accum(cT, sock, pr, r)
     IN  /\ pr' = a.o
         /\ r' = a.x
         /\ sock' = a.s
         /\ cRet' = IF a.err # "" THEN a.err ELSE IF a.r THEN "true" ELSE "false"
         /\ cTaken' = cTaken + (Len(sock.inb) - Len(a.s.inb))
         /\ cBytewise' = (cBytewise /\ Len(sock.inb) <= 1)
  /\ UNCHANGED <<peerq, cT, cX, cMode>>
  /\ CodecRest

\* io<T>::read(s, &r), from the call to its return or throw
BlockingRead ==
  /\ cMode = "blocking"
  /\ cRet = "none"
  /\ LET b == read(cT, sock)
     IN  /\ b.st # "block"
         /\ r' = b.v
         /\ sock' = b.s
         /\ cRet' = IF b.st = "ok" THEN "true" ELSE b.st
         /\ cTaken' = cTaken + (Len(sock.inb) - Len(b.s.inb))
  /\ UNCHANGED <<peerq, cT, cX, cMode, pr, cBytewise>>
  /\ CodecRest

CodecNext ==
  \/ \E n \in 1..MaxChunk : PeerSend(n)
  \/ PeerClose
  \/ AccumTick
  \/ BlockingRead

SpecCodec == CodecInit /\ [][CodecNext]_vars

(***************************************************************************)
(* The two receive functions on their own: calls of recvData, one recv at  *)
(* a time, and of recvDataPartial, while the peer's stream arrives in      *)
(* pieces, the peer closes, a signal interrupts a recv, or the connection  *)
(* is reset.                                                               *)
(***************************************************************************)
\* most recvs of one call that a signal interrupts
MaxIntr == 2

\* the bytes the peer sends, all different
RecvStream == <<17, 34, 51, 68, 85>>

\* what can happen to one recv besides data, close and an empty socket
RecvEvents == {"", "EINTR", "ECONNRESET"}

\* recv(socket, d, len, 0) on the socket s, blocking (blk) or not, under the
\* event ev: [di, errno, bytes, s].  A blocking recv that has nothing to return
\* waits (errno "wait" stands for not returning yet).
recv(s, len, ev, blk) ==
  IF ev = "EINTR"
  THEN [di |-> -1, errno |-> "EINTR", bytes |-> <<>>, s |-> s]
  ELSE IF ev = "ECONNRESET"
  THEN [di |-> -1, errno |-> "ECONNRESET", bytes |-> <<>>, s |-> Sock(<<>>, TRUE)]
  ELSE IF s.inb # <<>>
  THEN [di |-> Min(len, Len(s.inb)), errno |-> "",
        bytes |-> Take(s.inb, Min(len, Len(s.inb))),
        s |-> Sock(Drop(s.inb, Min(len, Len(s.inb))), s.closed)]
  ELSE IF s.closed
  THEN [di |-> 0, errno |-> "", bytes |-> <<>>, s |-> s]
  ELSE [di |-> -1, errno |-> IF blk THEN "wait" ELSE "EAGAIN", bytes |-> <<>>,
        s |-> s]

\* what a recv returned, as it is logged: the value returned and errno
recvOutcome(c) == <<c.di, c.errno>>

\* recvDataPartial(socket, d, sz) when its recv returns c: [n, bytes, s, err]
recvDataPartialOn(c) ==
  IF c.di = 0
  THEN [n |-> 0, bytes |-> <<>>, s |-> c.s, err |-> "PeerClosed"]
  ELSE IF c.di < 0
  THEN IF c.errno \in {"EAGAIN", "EWOULDBLOCK", "EINTR"}
       THEN [n |-> 0, bytes |-> <<>>, s |-> c.s, err |-> ""]
       ELSE [n |-> 0, bytes |-> <<>>, s |-> c.s, err |-> "Io"]
  ELSE [n |-> c.di, bytes |-> c.bytes, s |-> c.s, err |-> ""]

\* while (i < sz)
recvDataWhile(i, sz) == IF i < sz THEN "running" ELSE "returned"

\* a faulty recvDataIter: di is added to i whatever recv returned
recvDataIterAddsError(st, sz, c) ==
  IF c.di < 0 /\ c.errno # "EINTR"
  THEN [st EXCEPT !.ret = "Io", !.log = Append(@, recvOutcome(c))]
  ELSE IF c.di = 0
  THEN [st EXCEPT !.ret = "PeerClosed", !.log = Append(@, recvOutcome(c))]
  ELSE [i   |-> st.i + c.di,
        buf |-> Take(st.buf, st.i) \o c.bytes,
        ret |-> recvDataWhile(st.i + c.di, sz),
        log |-> Append(st.log, recvOutcome(c))]

\* one turn of recvData's loop, in which recv(socket, d + i, sz - i, 0)
\* returns c; st is [i, buf, ret, log], buf the bytes at d
recvDataIter(st, sz, c) ==
  IF c.di < 0
  THEN IF c.errno # "EINTR"
       THEN [st EXCEPT !.ret = "Io", !.log = Append(@, recvOutcome(c))]
       ELSE [st EXCEPT !.log = Append(@, recvOutcome(c))]
  ELSE IF c.di = 0
  THEN [st EXCEPT !.ret = "PeerClosed", !.log = Append(@, recvOutcome(c))]
  ELSE [i   |-> st.i + c.di,
        buf |-> Take(st.buf, st.i) \o c.bytes,
        ret |-> recvDataWhile(st.i + c.di, sz),
        log |-> Append(st.log, recvOutcome(c))]

RecvInit ==
  /\ \E n \in 0..(MaxLen + 1) : rcAll = Take(RecvStream, n)
  /\ peerq = rcAll
  /\ sock = Sock(<<>>, FALSE)
  /\ outb = <<>>
  /\ rcFn = "none"
  /\ rcSz = 0
  /\ rcI = 0
  /\ rcBuf = <<>>
  /\ rcRet = "none"
  /\ rcN = 0
  /\ rcLog = <<>>
  /\ rcPos = 0
  /\ CodecIdle
  /\ HsIdle
  /\ SyncIdle
  /\ AsyncIdle
  /\ LifeIdle
  /\ DialIdle

\* what the receive steps leave alone
RecvRest == UNCHANGED <<outb, codecVars, hsVars, syncVars, asyncVars, lifeVars,
      dialVars>>

\* the bytes of the stream received so far
RecvTaken == Len(rcAll) - Len(sock.inb) - Len(peerq)

\* recvData(socket, d, sz) is called: size_t i = 0 and the first loop test
RecvDataCall(sz) ==
  /\ rcRet \in {"none", "returned"}
  /\ rcFn' = "recvData"
  /\ rcSz' = sz
  /\ rcI' = 0
  /\ rcBuf' = <<>>
  /\ rcRet' = recvDataWhile(0, sz)
  /\ rcN' = 0
  /\ rcLog' = <<>>
  /\ rcPos' = RecvTaken
  /\ UNCHANGED <<sock, peerq, rcAll>>
  /\ RecvRest

\* the state of the loop after a turn
recvDataIterDone(st, c) ==
  /\ rcI' = st.i
  /\ rcBuf' = st.buf
  /\ rcRet' = st.ret
  /\ rcLog' = st.log
  /\ sock' = c.s

\* the turn of the loop in which recv returns c
recvDataTurn(c) ==
  /\ c.errno # "wait"
  /\ recvDataIterDone(recvDataIter([i |-> rcI, buf |-> rcBuf, ret |-> rcRet,
                                    log |-> rcLog], rcSz, c), c)

\* one turn of the loop of recvData, on a blocking socket
RecvDataTurn(ev) ==
  /\ rcFn = "recvData"
  /\ rcRet = "running"
  /\ ev = "EINTR" =>
       Cardinality({j \in 1..Len(rcLog) : rcLog[j][2] = "EINTR"}) < MaxIntr
  /\ ev = "ECONNRESET" => ~sock.closed
  /\ recvDataTurn(recv(sock, rcSz - rcI, ev, TRUE))
  /\ UNCHANGED <<peerq, rcFn, rcSz, rcN, rcPos, rcAll>>
  /\ RecvRest

\* the state after recvDataPartial, whose recv returned c, ended as p
recvPartialDone(c, p) ==
  /\ rcBuf' = p.bytes
  /\ rcN' = p.n
  /\ rcRet' = (IF p.err = "" THEN "returned" ELSE p.err)
  /\ rcLog' = <<recvOutcome(c)>>
  /\ sock' = p.s

\* recvDataPartial(socket, d, sz) whose recv returns c
recvPartialCall(c) == recvPartialDone(c, recvDataPartialOn(c))

\* a call of recvDataPartial(socket, d, sz), on a non-blocking socket
RecvPartial(sz, ev) ==
  /\ rcRet \in {"none", "returned"}
  /\ ev = "ECONNRESET" => ~sock.closed
  /\ rcFn' = "recvDataPartial"
  /\ rcSz' = sz
  /\ rcI' = 0
  /\ rcPos' = RecvTaken
  /\ recvPartialCall(recv(sock, sz, ev, FALSE))
  /\ UNCHANGED <<peerq, rcAll>>
  /\ RecvRest

\* the peer's next n bytes arrive
RecvPeerSend(n) ==
  /\ ~sock.closed
  /\ n <= Len(peerq)
  /\ sock' = Sock(sock.inb \o Take(peerq, n), FALSE)
  /\ peerq' = Drop(peerq, n)
  /\ UNCHANGED recvVars
  /\ RecvRest

\* the peer closes the connection; what it had not sent is never sent
RecvPeerClose ==
  /\ ~sock.closed
  /\ sock' = Sock(sock.inb, TRUE)
  /\ UNCHANGED <<peerq, recvVars>>
  /\ RecvRest

RecvNext ==
  \/ \E sz \in 0..(MaxLen + 1) : RecvDataCall(sz)
  \/ \E ev \in RecvEvents : RecvDataTurn(ev)
  \/ \E sz \in 0..(MaxLen + 1) : \E ev \in RecvEvents : RecvPartial(sz, ev)
  \/ \E n \in 1..MaxChunk : RecvPeerSend(n)
  \/ RecvPeerClose

SpecRecv == RecvInit /\ [][RecvNext]_vars

(***************************************************************************)
(* The codec of sums on its own: one variant written by the peer and read  *)
(* as in SpecCodec.                                                        *)
(***************************************************************************)
\* the sums read in the model: payloads of no bytes, of a fixed size and of a
\* size the stream gives, in anonymous and in named variants
VariantShapes ==
  << Variant(<<U8, Vec(U8), Unit>>), Variant(<<I16, Pair(U8, I16)>>),
     Variant(<<Unit, String>>), NVariant(<<I16, Unit>>),
     NVariant(<<Variant(<<U8, Unit>>), U32>>) >>

VariantInit ==
  \E i \in 1..Len(VariantShapes) :
    \E x \in Values(VariantShapes[i]) :
      /\ cT = VariantShapes[i]
      /\ cX = x
      /\ cMode \in {"blocking", "resumable"}
      /\ peerq = write(VariantShapes[i], x) \o Trailer
      /\ sock = Sock(<<>>, FALSE)
      /\ pr = Fresh(VariantShapes[i])
      /\ r = Default(VariantShapes[i])
      /\ cRet = "none"
      /\ cTaken = 0
      /\ cBytewise = TRUE
      /\ outb = <<>>
      /\ HsIdle
      /\ SyncIdle
      /\ AsyncIdle
      /\ LifeIdle
      /\ DialIdle
      /\ RecvIdle

SpecVariant == VariantInit /\ [][CodecNext]_vars

(***************************************************************************)
(* The codec on values without bytes: arrays of no elements and empty      *)
(* containers, alone and in front of other fields, read as in SpecCodec.   *)
(***************************************************************************)
EmptyShapes ==
  << FArr(I16, 0), FArr(Pair(U8, U8), 0),
     Pair(FArr(I16, 0), I16), Pair(U8, FArr(I16, 0)),
     Tuple(<<FArr(Pair(U8, U8), 0), U8>>),
     Vec(FArr(I16, 0)), Vec(U8), Vec(Pair(U8, U8)), String, Map(U8, U8),
     Pair(Vec(I16), U8), Tuple(<<String, U8>>) >>

\* the values of T whose containers are all empty
EmptyValues(T) ==
  {x \in Values(T) :
     /\ T.k = "string" => Len(x) = 0
     /\ T.k = "vec" => (Len(x) = 0 \/ T.e.k = "farr")
     /\ T.k = "map" => DOMAIN x = {}
     /\ T.k = "pair" => (T.a.k = "vec" => Len(x[1]) = 0)
     /\ T.k = "tuple" => (T.fs[1].k = "string" => Len(x[1]) = 0)}

EmptyInit ==
  \E i \in 1..Len(EmptyShapes) :
    \E x \in EmptyValues(EmptyShapes[i]) :
      /\ cT = EmptyShapes[i]
      /\ cX = x
      /\ cMode \in {"blocking", "resumable"}
      /\ peerq = write(EmptyShapes[i], x) \o Trailer
      /\ sock = Sock(<<>>, FALSE)
      /\ pr = Fresh(EmptyShapes[i])
      /\ r = Default(EmptyShapes[i])
      /\ cRet = "none"
      /\ cTaken = 0
      /\ cBytewise = TRUE
      /\ outb = <<>>
      /\ HsIdle
      /\ SyncIdle
      /\ AsyncIdle
      /\ LifeIdle
      /\ DialIdle
      /\ RecvIdle

SpecEmpty == EmptyInit /\ [][CodecNext]_vars

(***************************************************************************)
(* The map reader on the streams of its descriptor: io<std::map<K,T>>      *)
(* describes itself as std::vector<std::pair<K,T>>, so the peer writes any *)
(* sequence of pairs, keys repeated or not.                                *)
(***************************************************************************)
MapShape == Map(U8, U8)

\* io<std::map<K,T>>::type()
mapType(T) == Vec(Pair(T.key, T.val))

MapInit ==
  \E x \in Values(mapType(MapShape)) :
    /\ cT = MapShape
    /\ cX = x
    /\ cMode \in {"blocking", "resumable"}
    /\ peerq = write(mapType(MapShape), x) \o Trailer
    /\ sock = Sock(<<>>, FALSE)
    /\ pr = Fresh(MapShape)
    /\ r = Default(MapShape)
    /\ cRet = "none"
    /\ cTaken = 0
    /\ cBytewise = TRUE
    /\ outb = <<>>
    /\ HsIdle
    /\ SyncIdle
    /\ AsyncIdle
    /\ LifeIdle
    /\ DialIdle
    /\ RecvIdle

SpecMap == MapInit /\ [][CodecNext]_vars

(***************************************************************************)
(* The writer on its own: one array or vector written by io<T>::write.     *)
(***************************************************************************)
\* the arrays and vectors written in the model: elements that are memcopyable
\* (scalars, an enumeration, an alias) and elements that are not
WriteShapes ==
  << Vec(U8), Vec(I16), Vec(U32), Vec(Enum(U32)), Vec(Alias(I16)),
     FArr(U8, 2), FArr(I16, 2), FArr(U32, 1), FArr(Enum(U32), 2),
     FArr(Alias(I16), 2),
     Vec(Pair(U8, I16)), FArr(Pair(U8, U8), 2) >>

WriteInit ==
  \E i \in 1..Len(WriteShapes) :
    \E x \in Values(WriteShapes[i]) :
      /\ cT = WriteShapes[i]
      /\ cX = x
      /\ cMode = "none"
      /\ pr = 0
      /\ r = <<>>
      /\ cRet = "none"
      /\ cTaken = 0
      /\ cBytewise = TRUE
      /\ sock = Sock(<<>>, FALSE)
      /\ peerq = <<>>
      /\ outb = <<>>
      /\ HsIdle
      /\ SyncIdle
      /\ AsyncIdle
      /\ LifeIdle
      /\ DialIdle
      /\ RecvIdle

\* io<T>::write(s, x)
WriteValue ==
  /\ cRet = "none"
  /\ outb' = outb \o write(cT, cX)
  /\ cRet' = "written"
  /\ UNCHANGED <<sock, peerq, cT, cX, cMode, pr, r, cTaken, cBytewise>>
  /\ UNCHANGED <<hsVars, syncVars, asyncVars, lifeVars, recvVars,
      dialVars>>

WriteNext == WriteValue

SpecWrite == WriteInit /\ [][WriteNext]_vars

\* the encoding of the value under test
cB == write(cT, cX)

\* the number of bytes of the stream the peer has delivered
cDelivered == Len(cB) + Len(Trailer) - Len(peerq)

(***************************************************************************)
(* The session handshake: initSession(s, rpcds).                           *)
(***************************************************************************)
HNET_VERSION     == 65536
HNET_CMD_DEFEXPR == 0
HNET_CMD_INVOKE  == 2
HNET_RESULT_FAIL == 0

\* most declarations in a list handed to initSession
MaxDefs == 2
\* most bytes a send has written when it fails
MaxSent == 1

\* sendString(socket, s), sendBytes(socket, x): the bytes handed to sendData
sendString(str) == ToLE(Len(str), 8) \o str

sendBytes(x) == ToLE(Len(x), 8) \o (IF Len(x) > 0 THEN x ELSE <<>>)

\* recvString(socket, &x): [st, v, s]
recvString(s) ==
  LET n == recvData(s, 8)
  IN  IF n.st # "ok" THEN [st |-> n.st, v |-> <<>>, s |-> n.s]
      ELSE LET d == recvData(n.s, FromLE(n.bytes))
           IN  [st |-> d.st, v |-> d.bytes, s |-> d.s]

\* RPCDef(id, expr, willPut, willGet)
RPCDef(id, expr, willPut, willGet) ==
  [id |-> id, expr |-> expr, willPut |-> willPut, willGet |-> willGet]

\* the declaration lists of the model: n declarations with ids base+1 .. base+n,
\* expressions and type encodings of different lengths (the first willPut empty)
DefList(base, n) ==
  [i \in 1..n |-> RPCDef(base + i, [j \in 1..i |-> 96 + j],
                         [j \in 1..(i - 1) |-> 16 * i + j], <<i, 7>>)]

\* the result bytes and the error messages the peer answers with
ReplyBytes == {0, 1, 255}
Messages   == {<<>>, <<116, 109>>}

\* a faulty defBytes: the output type is sent before the input type
defBytesOutFirst(rpcd) ==
  <<HNET_CMD_DEFEXPR>>
    \o ToLE(rpcd.id, 4)
    \o sendString(rpcd.expr)
    \o sendBytes(rpcd.willGet)
    \o sendBytes(rpcd.willPut)

\* the sends of initSession for one declaration, in order
defBytes(rpcd) ==
  <<HNET_CMD_DEFEXPR>>
    \o ToLE(rpcd.id, 4)
    \o sendString(rpcd.expr)
    \o sendBytes(rpcd.willPut)
    \o sendBytes(rpcd.willGet)

\* the std::runtime_error of a rejected declaration: what is streamed into m
defError(rpcd, err) ==
  <<"While trying to define '", rpcd.expr, "' with id=", rpcd.id, ": ", err>>

\* a faulty rejected: only the byte 1 counts as acceptance
rejectedNotOne(result) == result # 1

\* a faulty rejected: the result byte is compared as a signed char below FAIL
rejectedSigned(result) == result < HNET_RESULT_FAIL

\* if (result == HNET_RESULT_FAIL)
rejected(result) == result = HNET_RESULT_FAIL

\* after the declaration at index i has been accepted
hsAdvance(i) == IF i < Len(rpcds) THEN "sendDef" ELSE "live"

HsInit ==
  /\ \E base \in {0, 255}, n \in 0..MaxDefs : rpcds = DefList(base, n)
  /\ hPc = "start"
  /\ hI = 0
  /\ hErr = <<>>
  /\ hReads = 0
  /\ hTaken = 0
  /\ hPeerLog = <<>>
  /\ sock = Sock(<<>>, FALSE)
  /\ peerq = <<>>
  /\ outb = <<>>
  /\ CodecIdle
  /\ SyncIdle
  /\ AsyncIdle
  /\ LifeIdle
  /\ DialIdle
  /\ RecvIdle

\* what the handshake's steps leave alone
HsRest == UNCHANGED <<peerq, codecVars, syncVars, asyncVars, lifeVars, recvVars,
      dialVars>>

\* sendData(s, &version, sizeof(version))
HsSendVersion ==
  /\ hPc = "start"
  /\ outb' = outb \o ToLE(HNET_VERSION, 4)
  /\ hI' = IF Len(rpcds) > 0 THEN 1 ELSE 0
  /\ hPc' = hsAdvance(0)
  /\ UNCHANGED <<sock, rpcds, hErr, hReads, hTaken, hPeerLog>>
  /\ HsRest

\* the five sends of one declaration
HsSendDef ==
  /\ hPc = "sendDef"
  /\ outb' = outb \o defBytes(rpcds[hI])
  /\ hPc' = "recvResult"
  /\ UNCHANGED <<sock, rpcds, hI, hErr, hReads, hTaken, hPeerLog>>
  /\ HsRest

\* a send fails: sendData throws after k bytes of what was to be sent
HsSendFail(k) ==
  /\ hPc \in {"start", "sendDef"}
  /\ LET d == IF hPc = "start" THEN ToLE(HNET_VERSION, 4) ELSE defBytes(rpcds[hI])
     IN  /\ k < Len(d)
         /\ outb' = outb \o Take(d, k)
  /\ hPc' = "threw"
  /\ hErr' = <<"Couldn't write to socket: ">>
  /\ UNCHANGED <<sock, rpcds, hI, hReads, hTaken, hPeerLog>>
  /\ HsRest

\* recvData(s, &result, sizeof(result)) and the test of the result
HsRecvResult ==
  /\ hPc = "recvResult"
  /\ LET d == recvData(sock, 1)
     IN  /\ d.st # "block"
         /\ sock' = d.s
         /\ hTaken' = hTaken + (Len(sock.inb) - Len(d.s.inb))
         /\ IF d.st # "ok"
            THEN /\ hPc' = "threw"
                 /\ hErr' = <<"Remote process closed session prematurely">>
                 /\ UNCHANGED <<hI, hReads>>
            ELSE /\ hReads' = hReads + 1
                 /\ hErr' = hErr
                 /\ IF rejected(d.bytes[1])
                    THEN hPc' = "recvErr" /\ hI' = hI
                    ELSE hPc' = hsAdvance(hI) /\ hI' = Min(hI + 1, Len(rpcds))
  /\ UNCHANGED <<outb, rpcds, hPeerLog>>
  /\ HsRest

\* recvString(s, &err) and the throw
HsRecvErr ==
  /\ hPc = "recvErr"
  /\ LET e == recvString(sock)
     IN  /\ e.st # "block"
         /\ sock' = e.s
         /\ hTaken' = hTaken + (Len(sock.inb) - Len(e.s.inb))
         /\ hErr' = IF e.st = "ok" THEN defError(rpcds[hI], e.v)
                    ELSE <<"Remote process closed session prematurely">>
  /\ hPc' = "threw"
  /\ UNCHANGED <<outb, rpcds, hI, hReads, hPeerLog>>
  /\ HsRest

\* the peer answers the declaration it has received
HsPeerReply ==
  /\ hPc = "recvResult"
  /\ ~sock.closed
  /\ Len(hPeerLog) < hI
  /\ \E b \in ReplyBytes, m \in Messages :
       /\ b # HNET_RESULT_FAIL => m = <<>>
       /\ sock' = Sock(sock.inb \o <<b>>
                         \o (IF b = HNET_RESULT_FAIL THEN sendString(m) ELSE <<>>),
                       FALSE)
       /\ hPeerLog' = Append(hPeerLog, <<b, m>>)
  /\ UNCHANGED <<outb, rpcds, hPc, hI, hErr, hReads, hTaken>>
  /\ HsRest

\* the peer closes the connection
HsPeerClose ==
  /\ hPc \notin {"live", "threw"}
  /\ ~sock.closed
  /\ sock' = Sock(sock.inb, TRUE)
  /\ UNCHANGED <<outb, hsVars>>
  /\ HsRest

HsNext ==
  \/ HsSendVersion
  \/ HsSendDef
  \/ \E k \in 0..MaxSent : HsSendFail(k)
  \/ HsRecvResult
  \/ HsRecvErr
  \/ HsPeerReply
  \/ HsPeerClose

SpecHandshake == HsInit /\ [][HsNext]_vars

(***************************************************************************)
(* The synchronous stub RPCFunc<R(Args...)> on a live session.             *)
(***************************************************************************)
\* the result "shape" of RPCFunc<void(Args...)> and AsyncRPCFunc<void(Args...)>
Void == [k |-> "void"]

\* most calls made through the stubs of one session
MaxCalls == 2

\* oSeq<Ts...>::write(socket, xs...)
RECURSIVE oSeqWrite(_, _)
oSeqWrite(Ts, xs) ==
  IF Ts = <<>> THEN <<>>
  ELSE write(Head(Ts), Head(xs)) \o oSeqWrite(Tail(Ts), Tail(xs))

\* a faulty invokeFrame: the expression id is written before the command
invokeFrameIdFirst(exprid, Ts, xs) ==
  write(U32, exprid) \o write(U8, HNET_CMD_INVOKE) \o oSeqWrite(Ts, xs)

\* the three writes that open a call: the command, the expression id, the arguments
invokeFrame(exprid, Ts, xs) ==
  write(U8, HNET_CMD_INVOKE) \o write(U32, exprid) \o oSeqWrite(Ts, xs)

NullExpr == 0

\* a faulty ExprIDs: the enumeration has no NullExpr, and counts from 0
ExprIDsFromZero(i) == i - 1

\* enum ExprIDs { NullExpr = 0, exprID_n... }: the enumerator of the i-th
\* declaration, i enumerators after NullExpr
ExprIDs(i) == NullExpr + i

\* the stubs of the synchronous client: n(&this->s, exprID_n) in declaration order
\* (argvals: the argument tuples passed in the model)
SyncStubs ==
  << [exprid |-> ExprIDs(1), args |-> <<U8, I16>>, R |-> I16,
      argvals |-> {<<1, 513>>, <<255, 0>>}],
     [exprid |-> ExprIDs(2), args |-> <<String>>, R |-> Pair(U8, I16),
      argvals |-> {<< <<>> >>, << <<65, 0>> >>}],
     [exprid |-> ExprIDs(3), args |-> <<I16>>, R |-> Void,
      argvals |-> {<<65535>>}] >>

SyncInit ==
  /\ sPc = "idle"
  /\ sCall = <<>>
  /\ sReply = <<>>
  /\ sResult = <<>>
  /\ sThrew = ""
  /\ sBroken = FALSE
  /\ sTaken = 0
  /\ sN = 0
  /\ sock = Sock(<<>>, FALSE)
  /\ peerq = <<>>
  /\ outb = <<>>
  /\ CodecIdle
  /\ HsIdle
  /\ AsyncIdle
  /\ LifeIdle
  /\ DialIdle
  /\ RecvIdle

\* what the synchronous client's steps leave alone
SyncRest == UNCHANGED <<codecVars, hsVars, asyncVars, lifeVars, recvVars,
      dialVars>>

\* a faulty afterWrite: the stub without a result reads a reply as well
afterWriteAlwaysReads(R) == "reading"

\* what operator() does once the frame is written: RPCFunc<R(Args...)> goes on
\* to io<R>::read, RPCFunc<void(Args...)> returns
afterWrite(R) == IF R = Void THEN "idle" ELSE "reading"

\* operator() up to the read: the frame is written
SyncCall(i, xs) ==
  /\ sPc = "idle"
  /\ sN < MaxCalls
  /\ outb' = outb \o invokeFrame(SyncStubs[i].exprid, SyncStubs[i].args, xs)
  /\ sCall' = [stub |-> i, args |-> xs, out0 |-> Len(outb), taken0 |-> sTaken]
  /\ sPc' = afterWrite(SyncStubs[i].R)
  /\ sReply' = <<>>
  /\ sResult' = <<>>
  /\ sThrew' = ""
  /\ sN' = sN + 1
  /\ UNCHANGED <<sock, peerq, sBroken, sTaken>>
  /\ SyncRest

\* operator() when a write fails: sendData throws after k bytes of the frame
SyncCallFail(i, xs, k) ==
  /\ sPc = "idle"
  /\ sN < MaxCalls
  /\ LET f == invokeFrame(SyncStubs[i].exprid, SyncStubs[i].args, xs)
     IN  /\ k < Len(f)
         /\ outb' = outb \o Take(f, k)
  /\ sCall' = [stub |-> i, args |-> xs, out0 |-> Len(outb), taken0 |-> sTaken]
  /\ sReply' = <<>>
  /\ sResult' = <<>>
  /\ sThrew' = "Couldn't write to socket: "
  /\ sBroken' = TRUE
  /\ sN' = sN + 1
  /\ UNCHANGED <<sock, peerq, sPc, sTaken>>
  /\ SyncRest

\* io<R>::read(s, &result) and the return, or the exception of recvData
SyncRead ==
  /\ sPc = "reading"
  /\ LET b == read(SyncStubs[sCall.stub].R, sock)
     IN  /\ b.st # "block"
         /\ sock' = b.s
         /\ sTaken' = sTaken + (Len(sock.inb) - Len(b.s.inb))
         /\ sResult' = IF b.st = "ok" THEN <<b.v>> ELSE <<>>
         /\ sThrew' = IF b.st = "ok" THEN ""
                      ELSE "Remote process closed session prematurely"
         /\ sBroken' = (sBroken \/ b.st # "ok")
  /\ sPc' = "idle"
  /\ UNCHANGED <<peerq, outb, sCall, sReply, sN>>
  /\ SyncRest

\* recv fails (not EINTR) while recvData waits for more of the reply
SyncReadFail ==
  /\ sPc = "reading"
  /\ read(SyncStubs[sCall.stub].R, sock).st = "block"
  /\ sock' = Sock(<<>>, sock.closed)
  /\ sTaken' = sTaken + Len(sock.inb)
  /\ sThrew' = "Couldn't read socket: "
  /\ sBroken' = TRUE
  /\ sPc' = "idle"
  /\ UNCHANGED <<peerq, outb, sCall, sReply, sResult, sN>>
  /\ SyncRest

\* the peer evaluates the call it received and writes the result v
SyncPeerReply ==
  /\ sPc = "reading"
  /\ sReply = <<>>
  /\ ~sock.closed
  /\ \E v \in Values(SyncStubs[sCall.stub].R) :
       /\ sReply' = <<v>>
       /\ peerq' = peerq \o write(SyncStubs[sCall.stub].R, v)
  /\ UNCHANGED <<sock, outb, sPc, sCall, sResult, sThrew, sBroken, sTaken, sN>>
  /\ SyncRest

\* the peer's next n bytes arrive
SyncPeerSend(n) ==
  /\ ~sock.closed
  /\ n <= Len(peerq)
  /\ sock' = Sock(sock.inb \o Take(peerq, n), FALSE)
  /\ peerq' = Drop(peerq, n)
  /\ UNCHANGED <<outb, syncVars>>
  /\ SyncRest

\* the peer closes the connection; what it had not sent is never sent
SyncPeerClose ==
  /\ ~sock.closed
  /\ sock' = Sock(sock.inb, TRUE)
  /\ UNCHANGED <<peerq, outb, syncVars>>
  /\ SyncRest

SyncNext ==
  \/ \E i \in 1..Len(SyncStubs) : \E xs \in SyncStubs[i].argvals :
       SyncCall(i, xs)
  \/ \E i \in 1..Len(SyncStubs) : \E xs \in SyncStubs[i].argvals :
       \E k \in 0..MaxSent : SyncCallFail(i, xs, k)
  \/ SyncRead
  \/ SyncReadFail
  \/ SyncPeerReply
  \/ \E n \in 1..MaxChunk : SyncPeerSend(n)
  \/ SyncPeerClose

SpecSync == SyncInit /\ [][SyncNext]_vars

(***************************************************************************)
(* The asynchronous stubs AsyncRPCFunc and their scheduler, the client     *)
(* class of DEFINE_ASYNC_NET_CLIENT, on a live session.                    *)
(***************************************************************************)
\* the number of asynchronous calls made
MaxAsync == 3

\* the stubs of the asynchronous client, in declaration order
AsyncStubs ==
  << [exprid |-> ExprIDs(1), args |-> <<U8>>, R |-> I16],
     [exprid |-> ExprIDs(2), args |-> <<U8>>, R |-> Pair(U8, Unit)],
     [exprid |-> ExprIDs(3), args |-> <<U8>>, R |-> Void] >>

\* the stubs that are AsyncReaders (those with a result)
Readers == {i \in 1..Len(AsyncStubs) : AsyncStubs[i].R # Void}

\* the result the peer computes for call number k: different for every call
ReplyVal(T, k) ==
  CASE T = I16            -> 256 * k + k
    [] T = Pair(U8, Unit) -> <<k, <<>>>>

\* AsyncRPCFunc(sched, socket, exprid): io<R>::prepare(&this->pr)
AsyncInit ==
  /\ blocking = TRUE
  /\ ks = [i \in Readers |-> <<>>]
  /\ aR = [i \in Readers |-> Default(AsyncStubs[i].R)]
  /\ aPr = [i \in Readers |-> Fresh(AsyncStubs[i].R)]
  /\ asyncReaders = <<>>
  /\ aIssued = <<>>
  /\ aVoid = 0
  /\ aFailed = 0
  /\ aDelivered = <<>>
  /\ aThrew = ""
  /\ aLog = <<>>
  /\ aDead = FALSE
  /\ sock = Sock(<<>>, FALSE)
  /\ peerq = <<>>
  /\ outb = <<>>
  /\ CodecIdle
  /\ HsIdle
  /\ SyncIdle
  /\ LifeIdle
  /\ DialIdle
  /\ RecvIdle

\* what the asynchronous client's steps leave alone
AsyncRest == UNCHANGED <<codecVars, hsVars, syncVars, lifeVars, recvVars,
      dialVars>>

\* size_t pendingRequests() const
pendingRequests == Len(asyncReaders)

\* a faulty enqueue: the reader is put at the front of the queue
enqueueFront(q, i) == <<i>> \o q

\* a faulty enqueue: a reader already in the queue is not queued again
enqueueOnce(q, i) ==
  IF \E j \in 1..Len(q) : q[j] = i THEN q ELSE Append(q, i)

\* void enqueue(AsyncReader* r): this->asyncReaders.push(r)
enqueue(q, i) == Append(q, i)

\* a faulty asyncCallOps: the continuation is stored and the stub registered
\* before the request is written
asyncCallOpsPushFirst(i, n) ==
  (IF AsyncStubs[i].R = Void THEN <<>>
   ELSE << <<"push", i, n>>, <<"enqueue", i>> >>)
    \o << <<"setBlockingBit", TRUE>>,
          <<"write", write(U8, HNET_CMD_INVOKE)>>,
          <<"write", write(U32, AsyncStubs[i].exprid)>>,
          <<"write", oSeqWrite(AsyncStubs[i].args, <<n>>)>>,
          <<"setBlockingBit", FALSE>> >>

\* a faulty asyncCallOps: the socket is made non-blocking before the writes
asyncCallOpsEarlyUnblock(i, n) ==
  << <<"setBlockingBit", TRUE>>,
     <<"setBlockingBit", FALSE>>,
     <<"write", write(U8, HNET_CMD_INVOKE)>>,
     <<"write", write(U32, AsyncStubs[i].exprid)>>,
     <<"write", oSeqWrite(AsyncStubs[i].args, <<n>>)>> >>
    \o (IF AsyncStubs[i].R = Void THEN <<>>
        ELSE << <<"push", i, n>>, <<"enqueue", i>> >>)

\* a faulty asyncCallOps: a stub without a result registers like the others
asyncCallOpsAlwaysEnqueue(i, n) ==
  << <<"setBlockingBit", TRUE>>,
     <<"write", write(U8, HNET_CMD_INVOKE)>>,
     <<"write", write(U32, AsyncStubs[i].exprid)>>,
     <<"write", oSeqWrite(AsyncStubs[i].args, <<n>>)>>,
     <<"setBlockingBit", FALSE>> >>
    \o (IF AsyncStubs[i].R = Void THEN << <<"enqueue", i>> >>
        ELSE << <<"push", i, n>>, <<"enqueue", i>> >>)

\* the statements of AsyncRPCFunc<R(Args...)>::operator()(args..., k), k the
\* continuation of call number n, and of AsyncRPCFunc<void(Args...)>::operator(),
\* in order
asyncCallOps(i, n) ==
  << <<"setBlockingBit", TRUE>>,
     <<"write", write(U8, HNET_CMD_INVOKE)>>,
     <<"write", write(U32, AsyncStubs[i].exprid)>>,
     <<"write", oSeqWrite(AsyncStubs[i].args, <<n>>)>>,
     <<"setBlockingBit", FALSE>> >>
    \o (IF AsyncStubs[i].R = Void THEN <<>>
        ELSE << <<"push", i, n>>, <<"enqueue", i>> >>)

\* the members and the socket as operator() works on them
CallState ==
  [blocking |-> blocking, out |-> outb, ks |-> ks, q |-> asyncReaders, log |-> <<>>]

\* one statement of operator()
applyOp(op, st) ==
  LET t == [st EXCEPT !.log = Append(@, <<op[1]>>)]
  IN  CASE op[1] = "setBlockingBit" -> [t EXCEPT !.blocking = op[2]]
        [] op[1] = "write"          -> [t EXCEPT !.out = @ \o op[2]]
        [] op[1] = "push"           -> [t EXCEPT !.ks[op[2]] = Append(@, op[3])]
        [] op[1] = "enqueue"        -> [t EXCEPT !.q = enqueue(@, op[2])]

\* the statements ops of operator(), one after the other
RECURSIVE applyOps(_, _)
applyOps(ops, st) ==
  IF ops = <<>> THEN st ELSE applyOps(Tail(ops), applyOp(Head(ops), st))

\* no continuation calls back into the session
NoReentry == [k \in 1..MaxAsync |-> 0]

\* the state readAndFinish and step work on; log: the readAndFinish calls made
\* and the calls made from continuations; re: per continuation, the stub it
\* calls when it is invoked (0: none)
AsyncState ==
  [q |-> asyncReaders, ks |-> ks, r |-> aR, pr |-> aPr, s |-> sock,
   delivered |-> aDelivered, err |-> "", log |-> <<>>,
   re |-> NoReentry, blocking |-> blocking, out |-> outb, issued |-> aIssued,
   void |-> aVoid, peer |-> peerq]

\* the number of calls made so far, inside a step()
callsMade(st) == Len(st.issued) + st.void + aFailed

\* the session after operator() of stub i, call number n, has returned inside
\* a continuation, c what its statements made of the members and the socket
reentrantCallDone(i, n, st, c) ==
  [st EXCEPT !.blocking = c.blocking,
             !.out = c.out,
             !.ks = c.ks,
             !.q = c.q,
             !.log = Append(@, <<"operator()", i, "returned">>),
             !.issued = IF AsyncStubs[i].R = Void THEN @
                        ELSE Append(@, [stub |-> i, k |-> n]),
             !.void = IF AsyncStubs[i].R = Void THEN @ + 1 ELSE @,
             !.peer = IF AsyncStubs[i].R = Void THEN @
                      ELSE @ \o write(AsyncStubs[i].R, ReplyVal(AsyncStubs[i].R, n))]

\* operator() of stub i called from a continuation
reentrantCall(i, n, st) ==
  reentrantCallDone(i, n, st,
    applyOps(asyncCallOps(i, n),
             [blocking |-> st.blocking, out |-> st.out, ks |-> st.ks,
              q |-> st.q, log |-> <<>>]))

\* this->ks.front()(this->r): continuation k is called with x, and makes the
\* call it is written to make
invoke(k, x, st) ==
  IF st.re[k] = 0 \/ callsMade(st) >= MaxAsync
  THEN [st EXCEPT !.delivered = Append(@, <<k, x>>)]
  ELSE reentrantCall(st.re[k], callsMade(st) + 1,
                     [st EXCEPT !.delivered = Append(@, <<k, x>>)])

\* a faulty finish: a failed read completes the call, and the front
\* continuation is called with what has been read so far
finishCallsBack(i, st, a) ==
  IF a.err # "" \/ a.r
  THEN [ret |-> TRUE,
        st  |-> [st EXCEPT !.delivered = Append(@, <<Head(st.ks[i]), a.x>>),
                           !.ks[i] = Tail(@),
                           !.r[i] = Default(AsyncStubs[i].R),
                           !.pr[i] = prepare(AsyncStubs[i].R, a.o),
                           !.s = a.s,
                           !.log = Append(@, <<"readAndFinish", i, "true">>)]]
  ELSE [ret |-> FALSE,
        st  |-> [st EXCEPT !.r[i] = a.x, !.pr[i] = a.o, !.s = a.s,
                           !.log = Append(@, <<"readAndFinish", i, "false">>)]]

\* a faulty finish: after the continuation has run, the reader state and the
\* scratch result are left as accum left them
finishNoReset(i, st, a) ==
  IF a.err # ""
  THEN [ret |-> FALSE,
        st  |-> [st EXCEPT !.err = a.err,
                           !.log = Append(@, <<"readAndFinish", i, "threw">>)]]
  ELSE IF a.r
  THEN [ret |-> TRUE,
        st  |-> [st EXCEPT !.delivered = Append(@, <<Head(st.ks[i]), a.x>>),
                           !.ks[i] = Tail(@),
                           !.r[i] = a.x,
                           !.pr[i] = a.o,
                           !.s = a.s,
                           !.log = Append(@, <<"readAndFinish", i, "true">>)]]
  ELSE [ret |-> FALSE,
        st  |-> [st EXCEPT !.r[i] = a.x, !.pr[i] = a.o, !.s = a.s,
                           !.log = Append(@, <<"readAndFinish", i, "false">>)]]

\* a faulty finish: the continuation is popped from the queue as it was
\* before the continuation ran
finishPopsCopy(i, st, a) ==
  IF a.err # ""
  THEN [ret |-> FALSE,
        st  |-> [st EXCEPT !.err = a.err,
                           !.log = Append(@, <<"readAndFinish", i, "threw">>)]]
  ELSE IF a.r
  THEN [ret |-> TRUE,
        st  |-> [invoke(Head(st.ks[i]), a.x, st) EXCEPT
                           !.ks[i] = Tail(st.ks[i]),
                           !.r[i] = Default(AsyncStubs[i].R),
                           !.pr[i] = prepare(AsyncStubs[i].R, a.o),
                           !.s = a.s,
                           !.log = Append(@, <<"readAndFinish", i, "true">>)]]
  ELSE [ret |-> FALSE,
        st  |-> [st EXCEPT !.r[i] = a.x, !.pr[i] = a.o, !.s = a.s,
                           !.log = Append(@, <<"readAndFinish", i, "false">>)]]

\* readAndFinish after io<R>::accum returned a: on completion the front
\* continuation is popped and called with the result, and the state is
\* prepared for the next reply
finish(i, st, a) ==
  IF a.err # ""
  THEN [ret |-> FALSE,
        st  |-> [st EXCEPT !.err = a.err,
                           !.log = Append(@, <<"readAndFinish", i, "threw">>)]]
  ELSE IF a.r
  THEN [ret |-> TRUE,
        st  |-> [invoke(Head(st.ks[i]), a.x, st) EXCEPT
                           !.ks[i] = Tail(@),
                           !.r[i] = Default(AsyncStubs[i].R),
                           !.pr[i] = prepare(AsyncStubs[i].R, a.o),
                           !.s = a.s,
                           !.log = Append(@, <<"readAndFinish", i, "true">>)]]
  ELSE [ret |-> FALSE,
        st  |-> [st EXCEPT !.r[i] = a.x, !.pr[i] = a.o, !.s = a.s,
                           !.log = Append(@, <<"readAndFinish", i, "false">>)]]

\* bool readAndFinish() of stub i: [ret, st]
readAndFinish(i, st) ==
  finish(i, st, accum(AsyncStubs[i].R, st.s, st.pr[i], st.r[i]))

\* void step(): while (size() > 0 && front()->readAndFinish()) pop();
RECURSIVE step(_)
\* a faulty stepPop: an if in place of the while
stepPopOnce(f) == IF f.ret THEN [f.st EXCEPT !.q = Tail(@)] ELSE f.st

stepPop(f) == IF f.ret THEN step([f.st EXCEPT !.q = Tail(@)]) ELSE f.st

step(st) == IF Len(st.q) = 0 THEN st ELSE stepPop(readAndFinish(Head(st.q), st))

\* the client's state after operator()
callDone(st) ==
  /\ blocking' = st.blocking
  /\ outb' = st.out
  /\ ks' = st.ks
  /\ asyncReaders' = st.q
  /\ aLog' = st.log

\* the number of calls made so far
aCalls == Len(aIssued) + aVoid + aFailed

\* operator() of stub i returns; the peer will answer a call with a result
AsyncCall(i) ==
  /\ aCalls < MaxAsync
  /\ callDone(applyOps(asyncCallOps(i, aCalls + 1), CallState))
  /\ IF AsyncStubs[i].R = Void
     THEN /\ aVoid' = aVoid + 1
          /\ UNCHANGED <<aIssued, peerq>>
     ELSE /\ aIssued' = Append(aIssued, [stub |-> i, k |-> aCalls + 1])
          /\ peerq' = peerq \o write(AsyncStubs[i].R,
                                     ReplyVal(AsyncStubs[i].R, aCalls + 1))
          /\ aVoid' = aVoid
  /\ aThrew' = ""
  /\ UNCHANGED <<sock, aR, aPr, aFailed, aDelivered, aDead>>
  /\ AsyncRest

\* operator() of stub i throws: sendData fails in statement j, a write, after
\* k of its bytes
AsyncCallFail(i, j, k) ==
  /\ aCalls < MaxAsync
  /\ LET ops == asyncCallOps(i, aCalls + 1)
     IN  /\ j <= Len(ops)
         /\ ops[j][1] = "write"
         /\ k < Len(ops[j][2])
         /\ callDone(applyOps(Append(Take(ops, j - 1), <<"write", Take(ops[j][2], k)>>),
                              CallState))
  /\ aThrew' = "Couldn't write to socket: "
  /\ aFailed' = aFailed + 1
  /\ UNCHANGED <<sock, peerq, aR, aPr, aIssued, aVoid, aDelivered, aDead>>
  /\ AsyncRest

\* the client's state after step()
stepDone(st) ==
  /\ asyncReaders' = st.q
  /\ ks' = st.ks
  /\ aR' = st.r
  /\ aPr' = st.pr
  /\ sock' = st.s
  /\ aDelivered' = st.delivered
  /\ aThrew' = st.err
  /\ aLog' = st.log
  /\ aDead' = (aDead \/ st.err # "")

\* the owner's event loop calls step()
Step ==
  /\ stepDone(step(AsyncState))
  /\ UNCHANGED <<peerq, outb, blocking, aIssued, aVoid, aFailed>>
  /\ AsyncRest

\* the client's state after a step() in which recv failed
stepFailed(st) ==
  /\ st.err # ""
  /\ stepDone([st EXCEPT !.err = "Couldn't read socket: "])

\* step() when the connection has been reset: the first recv fails with
\* ECONNRESET, what was queued is lost and later recvs return 0
StepFail ==
  /\ ~sock.closed
  /\ stepFailed(step([AsyncState EXCEPT !.s = Sock(<<>>, TRUE)]))
  /\ UNCHANGED <<peerq, outb, blocking, aIssued, aVoid, aFailed>>
  /\ AsyncRest

\* the peer's next n reply bytes arrive
AsyncPeerSend(n) ==
  /\ ~sock.closed
  /\ n <= Len(peerq)
  /\ sock' = Sock(sock.inb \o Take(peerq, n), FALSE)
  /\ peerq' = Drop(peerq, n)
  /\ UNCHANGED <<outb, asyncVars>>
  /\ AsyncRest

\* the peer closes the connection
AsyncPeerClose ==
  /\ ~sock.closed
  /\ sock' = Sock(sock.inb, TRUE)
  /\ UNCHANGED <<peerq, outb, asyncVars>>
  /\ AsyncRest

AsyncNext ==
  \/ \E i \in 1..Len(AsyncStubs) : AsyncCall(i)
  \/ \E i \in 1..Len(AsyncStubs) : \E j \in DOMAIN asyncCallOps(i, 0) :
       \E k \in 0..MaxSent :
       AsyncCallFail(i, j, k)
  \/ Step
  \/ StepFail
  \/ \E n \in 1..MaxChunk : AsyncPeerSend(n)
  \/ AsyncPeerClose

SpecAsync == AsyncInit /\ [][AsyncNext]_vars

(***************************************************************************)
(* Re-entrancy: continuations that make a call on the session they are     *)
(* invoked from, inside step().                                            *)
(***************************************************************************)
\* the client's state after a step() whose continuations made calls
reentrantStepDone(st) ==
  /\ stepDone(st)
  /\ blocking' = st.blocking
  /\ outb' = st.out
  /\ aIssued' = st.issued
  /\ aVoid' = st.void
  /\ peerq' = st.peer

\* step(), where continuation k calls stub re[k] when it is invoked
ReentrantStep ==
  /\ \E re \in [1..MaxAsync -> 0..Len(AsyncStubs)] :
       reentrantStepDone(step([AsyncState EXCEPT !.re = re]))
  /\ UNCHANGED aFailed
  /\ AsyncRest

ReentrantNext ==
  \/ \E i \in 1..Len(AsyncStubs) : AsyncCall(i)
  \/ ReentrantStep
  \/ \E n \in 1..MaxChunk : AsyncPeerSend(n)

SpecReentrant == AsyncInit /\ [][ReentrantNext]_vars

(***************************************************************************)
(* Delivery: the asynchronous client without I/O errors, under an event    *)
(* loop that calls step() when, and only when, the socket is readable.     *)
(* The peer goes on sending what it has to send and the loop goes on       *)
(* serving readable events; the owner is free to stop making calls.        *)
(***************************************************************************)
\* the socket polls readable: bytes have arrived that no recv has taken
readable == sock.inb # <<>>

\* the event loop calls step() for a readable event
ReadableStep ==
  /\ readable
  /\ Step

DeliverPeerSend == \E n \in 1..MaxChunk : AsyncPeerSend(n)

DeliverNext ==
  \/ \E i \in 1..Len(AsyncStubs) : AsyncCall(i)
  \/ ReadableStep
  \/ DeliverPeerSend

SpecDeliver ==
  /\ AsyncInit
  /\ [][DeliverNext]_vars
  /\ WF_vars(ReadableStep)
  /\ WF_vars(DeliverPeerSend)

(***************************************************************************)
(* The life of a client of DEFINE_ASYNC_NET_CLIENT: construction on a      *)
(* connected socket, calls, reconnect and destruction. DEFINE_NET_CLIENT   *)
(* has the same constructor, reconnect and destructor, without the queue.  *)
(***************************************************************************)
\* static RPCDefs makeRPCDefs(): one RPCDef per declared stub, in declaration
\* order (the expression and the type encodings differ from stub to stub)
makeRPCDefs ==
  [i \in 1..Len(AsyncStubs) |->
     RPCDef(ExprIDs(i), [j \in 1..i |-> 96 + j], <<i>>, <<i, 7>>)]

LifeInit ==
  /\ RecvIdle
  /\ DialIdle
  /\ lPc = "none"
  /\ this_s = 0
  /\ hFd = 0
  /\ nextFd = 0
  /\ closes = [fd \in 1..MaxFds |-> 0]
  /\ lIssued = 0
  /\ sock = Sock(<<>>, FALSE)
  /\ peerq = <<>>
  /\ outb = <<>>
  /\ CodecIdle
  /\ HsIdle
  /\ SyncIdle
  /\ AsyncIdle

\* what the lifecycle steps leave alone
LifeRest == UNCHANGED <<codecVars, syncVars, recvVars,
      dialVars>>

\* initSession(fd, makeRPCDefs()) is entered, on a socket just connected
enterInitSession ==
  /\ nextFd < MaxFds
  /\ nextFd' = nextFd + 1
  /\ hFd' = nextFd + 1
  /\ rpcds' = makeRPCDefs
  /\ hPc' = "start"
  /\ hI' = 0
  /\ hErr' = <<>>
  /\ hReads' = 0
  /\ hTaken' = 0
  /\ hPeerLog' = <<>>
  /\ sock' = Sock(<<>>, FALSE)
  /\ peerq' = <<>>
  /\ outb' = <<>>

\* a faulty closeC: the socket is closed and the queue is kept
closeCKeepsQueue(st) == [st EXCEPT !.closes[st.s] = @ + 1]

\* void closeC(): ::close(this->s); this->asyncReaders = std::queue<...>()
closeC(st) == [st EXCEPT !.closes[st.s] = @ + 1, !.q = <<>>]

\* the client's state after closeC()
closed(st) ==
  /\ closes' = st.closes
  /\ asyncReaders' = st.q

\* T(int fd) : s(initSession(fd, makeRPCDefs())), n(this, &this->s, exprID_n)...
\* up to the call of initSession
Construct ==
  /\ lPc = "none"
  /\ enterInitSession
  /\ lPc' = "ctor"
  /\ UNCHANGED <<this_s, closes, lIssued, asyncVars>>
  /\ LifeRest

\* initSession returns the descriptor: the constructor initialises s and the
\* stubs, and returns
ConstructReturn ==
  /\ lPc = "ctor"
  /\ hPc = "live"
  /\ this_s' = hFd
  /\ lPc' = "live"
  /\ blocking' = TRUE
  /\ ks' = [i \in Readers |-> <<>>]
  /\ aR' = [i \in Readers |-> Default(AsyncStubs[i].R)]
  /\ aPr' = [i \in Readers |-> Fresh(AsyncStubs[i].R)]
  /\ UNCHANGED <<sockVars, hsVars, hFd, nextFd, closes, lIssued, asyncReaders, aIssued,
                 aVoid, aFailed, aDelivered, aThrew, aLog, aDead>>
  /\ LifeRest

\* initSession throws out of the constructor: no object is made, and no
\* destructor runs
ConstructThrow ==
  /\ lPc = "ctor"
  /\ hPc = "threw"
  /\ lPc' = "gone"
  /\ UNCHANGED <<sockVars, hsVars, asyncVars, this_s, hFd, nextFd, closes, lIssued>>
  /\ LifeRest

\* void reconnect(int fd), up to the call of initSession: closeC()
Reconnect ==
  /\ lPc = "live"
  /\ enterInitSession
  /\ closed(closeC([s |-> this_s, closes |-> closes, q |-> asyncReaders]))
  /\ lPc' = "reconnect"
  /\ lIssued' = Len(aIssued)
  /\ blocking' = TRUE
  /\ UNCHANGED <<this_s, ks, aR, aPr, aIssued, aVoid, aFailed, aDelivered, aThrew,
                 aLog, aDead>>
  /\ LifeRest

\* initSession returns the descriptor: this->s = ..., and reconnect returns
ReconnectReturn ==
  /\ lPc = "reconnect"
  /\ hPc = "live"
  /\ this_s' = hFd
  /\ lPc' = "live"
  /\ UNCHANGED <<sockVars, hsVars, asyncVars, hFd, nextFd, closes, lIssued>>
  /\ LifeRest

\* initSession throws out of reconnect: this->s is not assigned
ReconnectThrow ==
  /\ lPc = "reconnect"
  /\ hPc = "threw"
  /\ lPc' = "live"
  /\ UNCHANGED <<sockVars, hsVars, asyncVars, this_s, hFd, nextFd, closes, lIssued>>
  /\ LifeRest

\* virtual ~T() { closeC(); }
Destroy ==
  /\ lPc = "live"
  /\ closed(closeC([s |-> this_s, closes |-> closes, q |-> asyncReaders]))
  /\ lPc' = "gone"
  /\ UNCHANGED <<sockVars, hsVars, this_s, hFd, nextFd, lIssued, blocking, ks, aR, aPr,
                 aIssued, aVoid, aFailed, aDelivered, aThrew, aLog, aDead>>
  /\ LifeRest

\* int fd() const
fd == this_s

\* a call through stub i of a client whose socket is open
LifeCall(i) ==
  /\ lPc = "live"
  /\ closes[this_s] = 0
  /\ AsyncCall(i)

\* a step of initSession, inside the constructor or reconnect
LifeHandshake ==
  /\ lPc \in {"ctor", "reconnect"}
  /\ HsNext

LifeNext ==
  \/ Construct
  \/ ConstructReturn
  \/ ConstructThrow
  \/ Reconnect
  \/ ReconnectReturn
  \/ ReconnectThrow
  \/ Destroy
  \/ \E i \in 1..Len(AsyncStubs) : LifeCall(i)
  \/ LifeHandshake

SpecLife == LifeInit /\ [][LifeNext]_vars

(***************************************************************************)
(* A session across reconnects: a constructed client whose owner makes     *)
(* calls, runs step() and reconnects, with a peer that answers on each     *)
(* connection the calls made on it.                                        *)
(***************************************************************************)
\* step() of a client whose socket is open
SessionStep ==
  /\ lPc = "live"
  /\ closes[this_s] = 0
  /\ Step

\* the peer's next n reply bytes arrive on the current connection
SessionPeerSend(n) ==
  /\ lPc = "live"
  /\ closes[this_s] = 0
  /\ AsyncPeerSend(n)

SessionNext ==
  \/ Reconnect
  \/ ReconnectReturn
  \/ ReconnectThrow
  \/ LifeHandshake
  \/ \E i \in 1..Len(AsyncStubs) : LifeCall(i)
  \/ SessionStep
  \/ \E n \in 1..MaxChunk : SessionPeerSend(n)

SpecSession == AsyncInit /\ [][SessionNext]_vars

(***************************************************************************)
(* Dialing: makeConnection(localAddr, host, port), one action per lookup   *)
(* and per turn of its loop over the address candidates.  What getaddrinfo,*)
(* socket, bind and connect return is the environment's choice.            *)
(***************************************************************************)
\* the address candidates a lookup returns at most
MaxAddrs == 2

\* the address families of the candidates (AF_INET, AF_INET6)
Families == {2, 10}

DialInit ==
  /\ mcPc = "start"
  /\ mcLocal \in BOOLEAN
  /\ mcLocalAddrs = <<>>
  /\ mcAddrs = <<>>
  /\ mcP = 0
  /\ mcSockets = 0
  /\ mcOpen = {}
  /\ mcRet = 0
  /\ mcLog = <<>>
  /\ sock = Sock(<<>>, FALSE)
  /\ peerq = <<>>
  /\ outb = <<>>
  /\ CodecIdle
  /\ HsIdle
  /\ SyncIdle
  /\ AsyncIdle
  /\ LifeIdle
  /\ RecvIdle

\* what dialing leaves alone
DialRest == UNCHANGED <<sockVars, codecVars, hsVars, syncVars, asyncVars,
                        lifeVars, recvVars>>

\* the lists getaddrinfo returns when it returns 0
AddrLists == UNION {[1..n -> Families] : n \in 1..MaxAddrs}

\* both lookupAddrInfo calls return; p starts at the head of addrs
MakeConnectionLookup ==
  /\ mcPc = "start"
  /\ \E ls \in (IF mcLocal THEN AddrLists ELSE {<<>>}), as \in AddrLists :
       /\ mcLocalAddrs' = ls
       /\ mcAddrs' = as
  /\ mcP' = 1
  /\ mcPc' = "loop"
  /\ UNCHANGED <<mcLocal, mcSockets, mcOpen, mcRet, mcLog>>
  /\ DialRest

\* one of the lookupAddrInfo calls throws
MakeConnectionLookupThrow ==
  /\ mcPc = "start"
  /\ mcPc' = "threw"
  /\ UNCHANGED <<mcLocal, mcLocalAddrs, mcAddrs, mcP, mcSockets, mcOpen, mcRet,
                 mcLog>>
  /\ DialRest

\* the position in localAddrs where the bind loop stops, given which binds
\* succeed: the first entry of the candidate's family that binds, or past
\* the end (la == nullptr)
bindLoop(fam, binds) ==
  LET hits == {i \in 1..Len(mcLocalAddrs) : mcLocalAddrs[i] = fam /\ binds[i]}
  IN  IF hits = {} THEN Len(mcLocalAddrs) + 1
      ELSE CHOOSE i \in hits : \A j \in hits : i <= j

\* one turn of the loop over addrs: socket, the bind loop, connect
tryCandidate(sockOk, binds, connOk) ==
  LET s  == mcSockets + 1
      la == bindLoop(mcAddrs[mcP], binds)
  IN  IF ~sockOk
        THEN [made |-> mcSockets, open |-> mcOpen, ret |-> 0,
              log |-> <<mcP, 0, "socket">>]
      ELSE IF la > Len(mcLocalAddrs) /\ mcLocalAddrs # <<>>
        THEN [made |-> s, open |-> mcOpen \cup {s}, ret |-> 0,
              log |-> <<mcP, s, "bind">>]
      ELSE IF ~connOk
        THEN [made |-> s, open |-> mcOpen, ret |-> 0,
              log |-> <<mcP, s, "connect">>]
      ELSE [made |-> s, open |-> mcOpen \cup {s}, ret |-> s,
            log |-> <<mcP, s, "connected">>]

MakeConnectionTry ==
  /\ mcPc = "loop"
  /\ mcP <= Len(mcAddrs)
  /\ \E sockOk \in BOOLEAN, connOk \in BOOLEAN,
        binds \in [1..Len(mcLocalAddrs) -> BOOLEAN] :
       LET t == tryCandidate(sockOk, binds, connOk)
       IN  /\ mcSockets' = t.made
           /\ mcOpen' = t.open
           /\ mcRet' = t.ret
           /\ mcLog' = Append(mcLog, t.log)
           /\ mcPc' = IF t.ret # 0 THEN "returned" ELSE "loop"
           /\ mcP' = IF t.ret # 0 THEN mcP ELSE mcP + 1
  /\ UNCHANGED <<mcLocal, mcLocalAddrs, mcAddrs>>
  /\ DialRest

\* p == nullptr: no candidate is left
MakeConnectionThrow ==
  /\ mcPc = "loop"
  /\ mcP > Len(mcAddrs)
  /\ mcPc' = "threw"
  /\ UNCHANGED <<mcLocal, mcLocalAddrs, mcAddrs, mcP, mcSockets, mcOpen, mcRet,
                 mcLog>>
  /\ DialRest

DialNext ==
  \/ MakeConnectionLookup
  \/ MakeConnectionLookupThrow
  \/ MakeConnectionTry
  \/ MakeConnectionThrow

SpecDial == DialInit /\ [][DialNext]_vars

(***************************************************************************)
(* The properties.                                                         *)
(***************************************************************************)

\* C1: on one asynchronous session, whatever the mix of stubs, the k-th
\* continuation step() invokes is the one passed to the k-th result-bearing
\* call, and it receives the k-th reply: no continuation is invoked out of
\* issue order (the peer replies in issue order).
C1_FifoDelivery ==
  /\ Len(aDelivered) <= Len(aIssued)
  /\ \A j \in 1..Len(aDelivered) :
       aDelivered[j] =
         <<aIssued[j].k, ReplyVal(AsyncStubs[aIssued[j].stub].R, aIssued[j].k)>>

\* three calls through both result-bearing stubs, all delivered
C1_Witness ==
  /\ Len(aDelivered) = MaxAsync
  /\ \E j \in 1..(Len(aIssued) - 1) : aIssued[j].stub # aIssued[j + 1].stub

\* what io<T>::read makes of the encoding of the value under test, in one shot
cBlocking == read(cT, Sock(cB \o Trailer, FALSE))

\* C2: the resumable reader fed the encoding of x one byte at a time ends with
\* the same value, and has consumed the same number of bytes of the stream, as
\* the blocking read of the same encoding in one shot.
C2_ResumableEqualsBlocking ==
  (cMode = "resumable" /\ cBytewise /\ cRet = "true") =>
    /\ cBlocking.st = "ok"
    /\ r = cBlocking.v
    /\ cTaken = Len(cB) + Len(Trailer) - Len(cBlocking.s.inb)

\* C3: fed one byte per tick, accum returns false after every proper prefix of
\* the encoding and true on the very tick that consumes its last byte.
C3_TrueOnLastByte ==
  (cMode = "resumable" /\ cBytewise /\ cRet \in {"true", "false"}) =>
    ((cRet = "true") <=> (cTaken = Len(cB)))

\* C4: the blocking read of the bytes write(x) produced returns x and has
\* consumed exactly those bytes.
C4_RoundTrip ==
  (cMode = "blocking" /\ cRet = "true") => (r = cX /\ cTaken = Len(cB))

\* the bytes the protocol has the client write for the first n declarations,
\* after the version word
RECURSIVE C6_Declared(_)
C6_Declared(n) ==
  IF n = 0 THEN ToLE(65536, 4)
  ELSE C6_Declared(n - 1)
         \o <<0>>
         \o ToLE(rpcds[n].id, 4)
         \o ToLE(Len(rpcds[n].expr), 8) \o rpcds[n].expr
         \o ToLE(Len(rpcds[n].willPut), 8) \o rpcds[n].willPut
         \o ToLE(Len(rpcds[n].willGet), 8) \o rpcds[n].willGet

\* C5: if the peer's reply byte to declaration i is 0, initSession reads the
\* length-prefixed message and throws an error that carries declaration i's
\* expression, its id and the peer's message; it never returns, and no byte of
\* a declaration after i is written.
C5_Rejection ==
  \A i \in 1..Len(hPeerLog) :
    hPeerLog[i][1] = 0 =>
      /\ hPc \in {"recvResult", "recvErr", "threw"}
      /\ outb = C6_Declared(i)
      /\ hPc = "threw" =>
           /\ hErr = <<"While trying to define '", rpcds[i].expr, "' with id=",
                       rpcds[i].id, ": ", hPeerLog[i][2]>>
           /\ hTaken = i + 8 + Len(hPeerLog[i][2])

\* the first of two declarations is rejected with a message, and initSession
\* has thrown
C5_Witness ==
  /\ Len(rpcds) = 2
  /\ hPeerLog = << <<0, <<116, 109>>>> >>
  /\ hPc = "threw"

\* C6: the handshake is lock-step: what the client has written is a prefix of
\* the version word followed by the declarations in list order, each as
\* DEFEXPR, id, expr, input type, output type; nothing of a declaration is
\* written before the result byte of the one before it has been read, one
\* result byte is read per declaration written, and initSession returns only
\* when every declaration has been written and answered.
C6_LockStep ==
  /\ hReads <= Len(rpcds)
  /\ Len(outb) <= Len(C6_Declared(Min(hReads + 1, Len(rpcds))))
  /\ outb = Take(C6_Declared(Len(rpcds)), Len(outb))
  /\ hReads > 0 => Len(outb) >= Len(C6_Declared(hReads))
  /\ hPc \in {"start", "sendDef", "recvResult", "live"} => hTaken = hReads
  /\ hPc = "live" =>
       /\ outb = C6_Declared(Len(rpcds))
       /\ hReads = Len(rpcds)
       /\ Len(hPeerLog) = Len(rpcds)
       /\ \A i \in 1..Len(rpcds) : hPeerLog[i][1] # 0

\* a list of two declarations has been accepted
C6_Witness == hPc = "live" /\ Len(rpcds) = 2 /\ hReads = 2

\* the arguments xs encoded one after the other by the codecs Ts
C7_Args(Ts, xs) == Concat([j \in 1..Len(Ts) |-> write(Ts[j], xs[j])])

\* C7: a synchronous call of a stub with a result, on a session where no call
\* has failed, has written exactly the byte 2, the expression id as 4 bytes and
\* the arguments in declared order; it reads nothing before the frame is
\* written, and when it returns it returns the value the peer wrote, having
\* read exactly that value's bytes.
C7_CallFrame ==
  (sCall # <<>> /\ ~sBroken /\ SyncStubs[sCall.stub].R # Void) =>
    /\ Drop(outb, sCall.out0) =
         <<2>> \o ToLE(SyncStubs[sCall.stub].exprid, 4)
               \o C7_Args(SyncStubs[sCall.stub].args, sCall.args)
    /\ sPc = "reading" => (sTaken = sCall.taken0 /\ sResult = <<>>)
    /\ sPc = "idle" =>
         /\ sReply # <<>>
         /\ sResult = sReply
         /\ sTaken = sCall.taken0 + Len(write(SyncStubs[sCall.stub].R, sReply[1]))

\* the second call of a session, with a string argument, has returned
C7_Witness ==
  /\ sN = 2 /\ sPc = "idle" /\ ~sBroken
  /\ sCall # <<>> /\ sCall.stub = 2 /\ sCall.args = << <<65, 0>> >>
  /\ sResult # <<>>

\* C8: once a write or a read of a synchronous call has failed, every later
\* call on the session fails with SessionBroken, and nothing more is written to
\* or received from the socket.
C8_BrokenSessionIsSilent ==
  [][sBroken =>
       /\ outb' = outb
       /\ sTaken' = sTaken
       /\ sN' # sN => sThrew' = "SessionBroken"]_vars

\* C9: when the peer has closed after delivering a proper, non-empty prefix of
\* the encoding, a blocking read throws PeerClosed and returns no value; a
\* resumable reader never reports the value complete, and its first accum
\* after the delivered bytes are consumed throws PeerClosed.
C9_PeerClosedMidValue ==
  (sock.closed /\ cDelivered > 0 /\ cDelivered < Len(cB)) =>
    /\ (cMode = "blocking" /\ cRet # "none") => cRet = "PeerClosed"
    /\ cMode = "resumable" => cRet # "true"
    /\ (cMode = "resumable" /\ cTaken = cDelivered /\ cRet \notin {"none", "false"})
         => cRet = "PeerClosed"

\* C10: pendingRequests() is the length of the scheduler's queue and the number
\* of result-bearing calls issued whose continuation has not been invoked; it
\* is 0 exactly when every such call has been delivered.
C10_PendingRequests ==
  /\ pendingRequests = Len(asyncReaders)
  /\ pendingRequests = Len(aIssued) - Len(aDelivered)
  /\ pendingRequests = 0 <=> Len(aDelivered) = Len(aIssued)

\* three calls issued, one delivered, two pending
C10_Witness ==
  /\ Len(aIssued) = MaxAsync
  /\ Len(aDelivered) = 1
  /\ pendingRequests = 2

\* the number of readAndFinish calls in log that returned true
RECURSIVE C11_Completed(_)
C11_Completed(log) ==
  IF log = <<>> THEN 0
  ELSE (IF Head(log)[3] = "true" THEN 1 ELSE 0) + C11_Completed(Tail(log))

\* s is a prefix of t
C11_Prefix(s, t) == Len(s) <= Len(t) /\ s = Take(t, Len(s))

\* C11: when a read fails during step(), the error leaves step() and no
\* continuation is invoked for it: the reader that failed stays at the head of
\* the scheduler's queue with its continuations, and only the readers completed
\* before it have been popped and delivered, each with its complete reply.
\* Once a step() has thrown, no later step() invokes a continuation or drops
\* a reader.
C11_StepFailure ==
  [][/\ (aThrew' # "" /\ aLog' # <<>> /\ aLog'[1][1] = "readAndFinish") =>
          /\ aLog'[Len(aLog')][3] = "threw"
          /\ asyncReaders' = Drop(asyncReaders, C11_Completed(aLog'))
          /\ asyncReaders' # <<>>
          /\ aLog'[Len(aLog')][2] = Head(asyncReaders')
          /\ Len(aDelivered') = Len(aDelivered) + C11_Completed(aLog')
          /\ Len(aDelivered') + Len(asyncReaders') = Len(aIssued')
          /\ \A i \in Readers :
               Len(ks'[i]) = Cardinality({j \in 1..Len(asyncReaders') :
                                            asyncReaders'[j] = i})
     /\ \A j \in (Len(aDelivered) + 1)..Len(aDelivered') :
          aDelivered'[j][2] = ReplyVal(AsyncStubs[aIssued[j].stub].R, aIssued[j].k)
     /\ aDead =>
          /\ aDelivered' = aDelivered
          /\ C11_Prefix(asyncReaders, asyncReaders')
          /\ \A i \in Readers : C11_Prefix(ks[i], ks'[i])
    ]_vars

\* a reply has been delivered and a later step() has thrown with two calls
\* pending
C11_Witness ==
  /\ aDead /\ aThrew # ""
  /\ Len(aDelivered) = 1
  /\ Len(asyncReaders) = 2

\* C12: destroying a client and reconnecting it each close the client's
\* current socket once and leave pendingRequests() at 0; reconnect then runs
\* initSession with the declaration list of the construction on the new
\* socket, and when the handshake completes every declaration has been sent
\* and answered on it and fd() is the new socket.
C12_DestroyReconnect ==
  [][/\ (lPc = "live" /\ lPc' \in {"gone", "reconnect"}) =>
          /\ closes' = [closes EXCEPT ![fd] = @ + 1]
          /\ pendingRequests' = 0
     /\ (lPc = "live" /\ lPc' = "reconnect") =>
          /\ hFd' # fd
          /\ closes'[hFd'] = 0
          /\ rpcds' = rpcds
          /\ hPc' = "start"
          /\ outb' = <<>>
     /\ (lPc = "reconnect" /\ lPc' = "live" /\ hPc = "live") =>
          /\ fd' = hFd
          /\ fd' # fd
          /\ closes'[fd'] = 0
          /\ Len(rpcds) = Len(AsyncStubs)
          /\ outb = C6_Declared(Len(rpcds))
          /\ hReads = Len(rpcds)
    ]_vars

\* a client with a call pending has been reconnected: its first socket is
\* closed, the queue is empty and fd() is the second socket
C12_Witness ==
  /\ lPc = "live" /\ hPc = "live"
  /\ fd = 2
  /\ closes[1] = 1
  /\ Len(aIssued) = 1 /\ aDelivered = <<>>
  /\ pendingRequests = 0

\* C13: after a handshake that failed, in the constructor or in reconnect, the
\* socket handed to it has been closed; and no socket is ever closed twice.
C13_HandshakeOrDestroyed ==
  /\ (hPc = "threw" /\ lPc \in {"gone", "live"}) => closes[hFd] = 1
  /\ \A d \in 1..MaxFds : closes[d] <= 1

\* C16: the declaration list of a client of N stubs carries the ids 1..N in
\* declaration order, every stub is bound to the id of its own declaration,
\* and the list handed to initSession is the same at the construction and at
\* every reconnect; a call through a stub carries that stub's id.
C16_Ids ==
  [][/\ \A i \in 1..Len(AsyncStubs) : AsyncStubs[i].exprid = i
     /\ \A i \in 1..Len(SyncStubs) : SyncStubs[i].exprid = i
     /\ lPc' # "none" =>
          /\ Len(rpcds') = Len(AsyncStubs)
          /\ \A i \in 1..Len(rpcds') : rpcds'[i].id = i
     /\ lPc # "none" => rpcds' = rpcds
     /\ Len(aIssued') > Len(aIssued) =>
          SubSeq(outb', Len(outb) + 2, Len(outb) + 5)
            = ToLE(aIssued'[Len(aIssued')].stub, 4)
    ]_vars

\* a client on its third socket, after two reconnects, with a call made
C16_Witness ==
  /\ lPc = "live" /\ hPc = "live"
  /\ fd = MaxFds
  /\ Len(aIssued) > 0

\* C14: a call through a stub without a result writes the INVOKE frame and
\* nothing more: the scheduler's queue, pendingRequests() and every stub's
\* continuations are as before, nothing is read, and the peer owes no reply
\* for it; the queue never holds a stub without a result.
C14_FireAndForget ==
  [][/\ aVoid' = aVoid + 1 =>
          /\ \E i \in 1..Len(AsyncStubs) :
               /\ AsyncStubs[i].R = Void
               /\ outb' = outb \o <<2>> \o ToLE(i, 4) \o <<aCalls + 1>>
          /\ asyncReaders' = asyncReaders
          /\ pendingRequests' = pendingRequests
          /\ ks' = ks
          /\ aPr' = aPr
          /\ sock' = sock
          /\ peerq' = peerq
     /\ \A j \in 1..Len(asyncReaders') : AsyncStubs[asyncReaders'[j]].R # Void
    ]_vars

\* a call without a result has just been made while two calls are pending
C14_Witness ==
  /\ aVoid = 1
  /\ pendingRequests = 2
  /\ Len(aLog) = 5 /\ aLog[5] = <<"setBlockingBit">>
  /\ aThrew = ""

\* the statements of a call with a result, in the order the protocol gives
C19_Order ==
  << <<"setBlockingBit">>, <<"write">>, <<"write">>, <<"write">>,
     <<"setBlockingBit">>, <<"push">>, <<"enqueue">> >>

\* C19: a call with a result sets the socket blocking, writes INVOKE, the id
\* and the arguments, sets the socket non-blocking, pushes the continuation and
\* registers the stub, in that order, and reads nothing; when it returns the
\* socket is non-blocking. A call whose write fails has done nothing of what
\* comes after the write.
C19_CallOrder ==
  [][/\ Len(aIssued') > Len(aIssued) =>
          /\ aLog' = C19_Order
          /\ \E i \in Readers :
               /\ outb' = outb \o <<2>> \o ToLE(i, 4) \o <<aCalls + 1>>
               /\ ks' = [ks EXCEPT ![i] = Append(@, aCalls + 1)]
               /\ asyncReaders' = Append(asyncReaders, i)
          /\ blocking' = FALSE
          /\ sock' = sock
     /\ aFailed' > aFailed =>
          /\ Len(aLog') \in 2..4
          /\ aLog' = Take(C19_Order, Len(aLog'))
          /\ blocking' = TRUE
          /\ ks' = ks
          /\ asyncReaders' = asyncReaders
          /\ sock' = sock
    ]_vars

\* the second call with a result has returned
C19_Witness ==
  /\ Len(aIssued) = 2
  /\ aLog = C19_Order
  /\ ~blocking
  /\ pendingRequests = 2

\* a step() has been taken (or nothing has changed)
C20_IsStep ==
  /\ peerq' = peerq
  /\ outb' = outb
  /\ aFailed' = aFailed
  /\ sock'.closed = sock.closed

\* C20: step() works through the scheduler's queue from its head: it calls
\* readAndFinish on the head, pops it and goes on exactly when that returned
\* true, and stops at the first call that did not. When it returns normally
\* the queue is empty or its head is the reader whose call returned false, and
\* the readers it did not call are as they were.
C20_HeadFirst ==
  [][C20_IsStep =>
       /\ Len(aLog') <= Len(asyncReaders)
       /\ \A j \in 1..Len(aLog') :
            /\ aLog'[j][1] = "readAndFinish"
            /\ aLog'[j][2] = asyncReaders[j]
            /\ j < Len(aLog') => aLog'[j][3] = "true"
       /\ asyncReaders' = Drop(asyncReaders, C11_Completed(aLog'))
       /\ asyncReaders' # <<>> =>
            /\ aLog' # <<>>
            /\ aLog'[Len(aLog')][2] = Head(asyncReaders')
            /\ aLog'[Len(aLog')][3] = (IF aThrew' = "" THEN "false" ELSE "threw")
       /\ \A i \in Readers :
            (\A j \in 1..Len(aLog') : aLog'[j][2] # i) =>
              (aPr'[i] = aPr[i] /\ aR'[i] = aR[i] /\ ks'[i] = ks[i])
    ]_vars

\* a step() has completed two readers and stopped at a third
C20_Witness ==
  /\ Len(aLog) = 3
  /\ aLog[1][1] = "readAndFinish"
  /\ aLog[3][3] = "false"
  /\ pendingRequests = 1

\* C15: a synchronous call through a stub without a result writes the frame
\* (the INVOKE opcode, the stub's id, the arguments) and returns without
\* reading: the bytes received and the position in the inbound stream are as
\* before, and no read is ever pending for such a stub.
C15_VoidSyncCall ==
  [][/\ (sN' = sN + 1 /\ sThrew' = "" /\ SyncStubs[sCall'.stub].R = Void) =>
          /\ outb' = outb \o <<2>> \o ToLE(sCall'.stub, 4)
                          \o ToLE(sCall'.args[1], 2)
          /\ sPc' = "idle"
          /\ sock' = sock
          /\ sTaken' = sTaken
          /\ peerq' = peerq
          /\ sResult' = <<>>
     /\ sPc' = "reading" => SyncStubs[sCall'.stub].R # Void
    ]_vars

\* a call without a result has returned, after a call whose reply was read
C15_Witness ==
  /\ sN = 2
  /\ sPc = "idle"
  /\ sThrew = ""
  /\ SyncStubs[sCall.stub].R = Void
  /\ sTaken > 0
  /\ sCall.taken0 = sTaken

\* the reply bytes initSession has read so far
C18_Read == [i \in 1..hReads |-> hPeerLog[i][1]]

\* C18: a reply byte means failure exactly when it is 0, and acceptance for
\* every value 1..255: after an accepted reply nothing more is read for that
\* declaration and initSession goes on to the next one, or returns after the
\* last; after a 0 it goes on to the error message and throws. initSession
\* has returned exactly when every declaration's reply has been read and none
\* was 0.
C18_ReplyByte ==
  /\ hReads <= Len(hPeerLog)
  /\ \A i \in 1..hReads :
       /\ C18_Read[i] \in 1..255 =>
            IF i < Len(rpcds) THEN hI > i ELSE hPc = "live"
       /\ C18_Read[i] = 0 =>
            /\ i = hReads
            /\ hI = i
            /\ hPc \in {"recvErr", "threw"}
  /\ (\A i \in 1..hReads : C18_Read[i] # 0) => hTaken = hReads
  /\ hPc = "live" <=>
       /\ hReads = Len(rpcds)
       /\ \A i \in 1..hReads : C18_Read[i] # 0
       /\ outb = C6_Declared(Len(rpcds))

\* two declarations have been accepted, with the replies 255 and 1
C18_Witness ==
  /\ hPc = "live"
  /\ C18_Read = <<255, 1>>
  /\ hTaken = 2

\* what writing a value element by element with the element's codec gives
C17_Elementwise(T, x) ==
  IF T.k = "vec" THEN writeVecIter(T, x) ELSE FixedArrIterWrite(T, x)

\* C17: for a vector or a fixed array whose elements are memcopyable, the
\* bytes the single sendData of the element memory writes are the bytes that
\* writing the elements one by one with their codec writes, in content and in
\* length.
C17_BlitIsElementwise ==
  (cRet = "written" /\ can_memcpy(cT.e)) =>
    /\ outb = C17_Elementwise(cT, cX)
    /\ Len(outb) = (IF cT.k = "vec" THEN 8 ELSE 0) + SizeOf(cT.e) * Len(cX)

\* a vector of two four-byte enumeration values has been written in one piece
C17_Witness ==
  /\ cRet = "written"
  /\ cT = Vec(Enum(U32))
  /\ Len(cX) = 2
  /\ cX[1] # cX[2]
  /\ Len(outb) = 16

\* the number of calls among the first n of log in which stub i returned true
C21_Trues(log, i, n) ==
  Cardinality({j \in 1..n : log[j][2] = i /\ log[j][3] = "true"})

\* what the one accum of the first readAndFinish of a step() does
C21_Accum ==
  accum(AsyncStubs[Head(asyncReaders)].R, sock,
        aPr[Head(asyncReaders)], aR[Head(asyncReaders)])

\* C21: readAndFinish runs accum once. When accum returns true it calls the
\* stub's front continuation, and no other, with the result, removes that
\* continuation, and leaves the reader state as prepare leaves it and the
\* scratch result value-initialised, and returns true; when accum returns false
\* it calls nothing, leaves the continuations alone and returns false.
C21_ReadAndFinish ==
  [][(C20_IsStep /\ asyncReaders # <<>> /\ aLog' # <<>>) =>
       /\ Len(aDelivered') = Len(aDelivered) + C11_Completed(aLog')
       /\ \A i \in Readers :
            /\ ks'[i] = Drop(ks[i], C21_Trues(aLog', i, Len(aLog')))
            /\ (\E j \in 1..Len(aLog') :
                  /\ aLog'[j][2] = i
                  /\ aLog'[j][3] = "true"
                  /\ \A l \in (j + 1)..Len(aLog') : aLog'[l][2] # i) =>
                 /\ aPr'[i] = Fresh(AsyncStubs[i].R)
                 /\ aR'[i] = Default(AsyncStubs[i].R)
       /\ \A j \in 1..C11_Completed(aLog') :
            aDelivered'[Len(aDelivered) + j][1]
              = ks[aLog'[j][2]][C21_Trues(aLog', aLog'[j][2], j)]
       /\ aLog'[1][3] = "true" =>
            /\ C21_Accum.err = "" /\ C21_Accum.r
            /\ aDelivered'[Len(aDelivered) + 1]
                 = <<Head(ks[Head(asyncReaders)]), C21_Accum.x>>
       /\ aLog'[1][3] = "false" =>
            /\ C21_Accum.err = "" /\ ~C21_Accum.r
            /\ aDelivered' = aDelivered
            /\ ks' = ks
            /\ sock' = C21_Accum.s
            /\ aPr' = [aPr EXCEPT ![Head(asyncReaders)] = C21_Accum.o]
            /\ aR' = [aR EXCEPT ![Head(asyncReaders)] = C21_Accum.x]
    ]_vars

\* a step() has completed the first of two calls made through one stub and has
\* left the second incomplete
C21_Witness ==
  /\ aLog = << <<"readAndFinish", 1, "true">>, <<"readAndFinish", 1, "false">> >>
  /\ Len(ks[1]) = 1
  /\ Len(aDelivered) = 1
  /\ aPr[1] # Fresh(I16)

\* the number of entries of stub i in the scheduler's queue
C22_Entries(i) == Cardinality({j \in 1..Len(asyncReaders) : asyncReaders[j] = i})

\* the number of calls made through stub i that have not completed
C22_Open(i) ==
  Cardinality({j \in 1..Len(aIssued) : aIssued[j].stub = i})
    - Cardinality({j \in 1..Len(aDelivered) :
                     \E l \in 1..Len(aIssued) :
                       aIssued[l].stub = i /\ aIssued[l].k = aDelivered[j][1]})

\* C22: at every moment of a client's life, through calls and reconnects, a
\* stub holds as many continuations as calls made through it have not
\* completed, and that is the number of its entries in the scheduler's queue.
C22_FifoMatchesQueue ==
  \A i \in DOMAIN ks :
    /\ Len(ks[i]) = C22_Open(i)
    /\ Len(ks[i]) = C22_Entries(i)

\* C23: a stub that has a call not yet delivered is not put on the scheduler's
\* queue a second time: no stub has two entries in the queue.
C23_RegisteredOnce ==
  \A i \in Readers : C22_Entries(i) <= 1

\* C24: whenever step() runs an accum, the socket is in non-blocking mode.
C24_AccumNonBlocking ==
  [][(C20_IsStep /\ asyncReaders # <<>> /\ aLog' # <<>>
        /\ aLog'[1][1] = "readAndFinish") => ~blocking
    ]_vars

\* C25: reading a vector of memcopyable elements of size w, with io<T>::read
\* or with prepare and accum, takes sizeof(size_t) + length * w bytes from the
\* socket, the length word and then the elements, into a target of length
\* elements; the bytes after the value stay on the stream.
C25_VecBytes ==
  (cT.k = "vec" /\ can_memcpy(cT.e) /\ cRet = "true") =>
    /\ cTaken = 8 + Len(cX) * SizeOf(cT.e)
    /\ Len(r) = Len(cX)
    /\ sock.inb \o peerq = Trailer

\* the can_memcpy flag the propagation rule gives a shape
RECURSIVE C26_Rule(_)
C26_Rule(T) ==
  CASE T.k \in {"prim", "enum"} -> TRUE
    [] T.k = "alias"            -> C26_Rule(T.of)
    [] T.k = "farr"             -> C26_Rule(T.e)
    [] OTHER                    -> FALSE

\* C26: io<T>::can_memcpy is true for primitives and enumerations, that of the
\* aliased type for an alias, that of the element type for a fixed array, and
\* false for every other shape.
C26_Propagation ==
  cRet = "true" =>
    /\ can_memcpy(cT) = C26_Rule(cT)
    /\ cT.k \in {"vec", "farr"} => can_memcpy(cT.e) = C26_Rule(cT.e)

\* the payload codec's accum, on the payload of the constructor read
C27_Payload ==
  accum(cT.cs[r[1] + 1], sock, pr.payloadState[2], r[2])

\* C27: the resumable reader of a sum has two phases. While it reads the tag it
\* takes bytes of the tag only; the tick that completes the tag makes the
\* constructor of that tag with a value-initialised payload and a prepared
\* payload state, and goes over to the payload. From then on it runs the
\* codec of that constructor and nothing else, returns true exactly when that
\* codec does, and does not read a tag again.
C27_TwoPhases ==
  [][(/\ cMode = "resumable"
      /\ cT.k \in {"variant", "nvariant"}
      /\ cRet' \in {"true", "false"}
      /\ <<pr, r, cRet, sock>>' # <<pr, r, cRet, sock>>
      /\ peerq' = peerq /\ sock'.closed = sock.closed) =>
       IF pr.readTag
       THEN /\ cRet' = "false"
            /\ cTaken' - cTaken <= 4 - pr.tagState
            /\ pr'.tagState = pr.tagState + (cTaken' - cTaken)
            /\ pr'.readTag = (pr'.tagState < 4)
            /\ IF pr'.readTag
               THEN pr'.payloadState = pr.payloadState /\ r'[2] = r[2]
               ELSE /\ r'[1] = cX[1]
                    /\ r'[2] = Default(cT.cs[cX[1] + 1])
                    /\ pr'.payloadState = <<cX[1], Fresh(cT.cs[cX[1] + 1])>>
       ELSE /\ pr'.readTag = FALSE
            /\ pr'.tagState = pr.tagState
            /\ pr'.payloadState[1] = pr.payloadState[1]
            /\ r'[1] = r[1]
            /\ C27_Payload.err = ""
            /\ (cRet' = "true") = C27_Payload.r
            /\ pr'.payloadState[2] = C27_Payload.o
            /\ r'[2] = C27_Payload.x
            /\ sock' = C27_Payload.s
    ]_vars

\* a variant whose second constructor holds a vector of two bytes has been
\* read in ticks: the tag, then the payload
C27_Witness ==
  /\ cMode = "resumable"
  /\ cT = Variant(<<U8, Vec(U8), Unit>>)
  /\ cX[1] = 1 /\ Len(cX[2]) = 2
  /\ cRet = "true"
  /\ ~pr.readTag
  /\ r = cX
  /\ cTaken = 14

\* C30: a resumable reader takes no byte beyond the end of the value it is
\* decoding: what accum has taken from the socket never exceeds the length of
\* the value's encoding, and is that length when accum has returned true, so
\* that the first byte of the next reply is still on the stream.
C30_NoOverread ==
  cMode = "resumable" =>
    /\ cTaken <= Len(write(cT, cX))
    /\ cRet = "true" =>
         /\ cTaken = Len(write(cT, cX))
         /\ sock.inb \o peerq = Trailer

\* C28: recvDataPartial returns the number of bytes received, at least 1 and
\* at most sz, when bytes are there; it returns 0 exactly when recv found the
\* socket empty (EAGAIN) or was interrupted (EINTR); it throws for the closed
\* session exactly when the peer has closed and nothing is left to receive;
\* and it throws the read error exactly when recv fails in another way. It
\* stores no more than sz bytes.
C28_PartialReceive ==
  [][(rcFn' = "recvDataPartial" /\ recvVars' # recvVars) =>
       /\ Len(rcBuf') <= rcSz'
       /\ (rcLog'[1][2] = "" /\ sock.inb # <<>>) =>
            /\ rcRet' = "returned"
            /\ rcN' \in 1..rcSz'
            /\ rcBuf' = Take(sock.inb, rcN')
            /\ sock'.inb = Drop(sock.inb, rcN')
       /\ (rcRet' = "returned" /\ rcN' = 0) <=> rcLog'[1][2] \in {"EAGAIN", "EINTR"}
       /\ rcRet' = "PeerClosed" <=>
            (rcLog'[1][2] = "" /\ sock.inb = <<>> /\ sock.closed)
       /\ rcRet' = "Io" <=> rcLog'[1][2] = "ECONNRESET"
    ]_vars

\* C29: recvData returns only when sz bytes are stored, and they are the next
\* sz bytes of the stream in order; a recv that a signal interrupts is tried
\* again and changes nothing; it throws for the closed session when the peer
\* has closed before sz bytes came, and the read error when recv fails in
\* another way; with sz = 0 it returns at once, with no recv.
C29_BlockingReceive ==
  [][/\ rcFn' = "recvData" =>
          /\ rcI' = Len(rcBuf')
          /\ rcI' <= rcSz'
          /\ rcBuf' = SubSeq(rcAll, rcPos' + 1, rcPos' + rcI')
          /\ rcRet' = "returned" <=> rcI' = rcSz'
          /\ rcRet' = "returned" =>
               sock'.inb \o peerq' = Drop(rcAll, rcPos' + rcSz')
          /\ rcRet' = "PeerClosed" =>
               /\ sock'.closed /\ sock'.inb = <<>>
               /\ rcLog'[Len(rcLog')] = <<0, "">>
          /\ rcRet' = "Io" => rcLog'[Len(rcLog')] = <<-1, "ECONNRESET">>
          /\ \A j \in 1..(Len(rcLog') - 1) :
               rcLog'[j][1] > 0 \/ rcLog'[j][2] = "EINTR"
          /\ rcSz' = 0 => rcLog' = <<>>
          /\ (rcSz' = 0 /\ recvVars' # recvVars) => sock' = sock
     /\ (/\ rcFn = "recvData" /\ rcRet = "running" /\ rcFn' = "recvData"
         /\ rcLog' = Append(rcLog, <<-1, "EINTR">>)) =>
          /\ UNCHANGED <<rcI, rcBuf, sock, peerq>>
          /\ rcRet' = "running"
    ]_vars

\* recvData has returned three bytes that came in two pieces, after a recv
\* that was interrupted when the first piece was stored
C29_Witness ==
  /\ rcFn = "recvData"
  /\ rcRet = "returned"
  /\ rcSz = 3
  /\ rcBuf = <<17, 34, 51>>
  /\ \E n \in 1..2 : rcLog = << <<n, "">>, <<-1, "EINTR">>, <<3 - n, "">> >>

\* C35: a call whose request cannot be written throws, and leaves the stub's
\* continuations, its reader state and scratch result and the scheduler's
\* queue as they were; its continuation is stored nowhere, and nothing is ever
\* delivered to a continuation other than those of the calls that returned.
C35_FailedWrite ==
  [][/\ aFailed' > aFailed =>
          /\ aThrew' = "Couldn't write to socket: "
          /\ ks' = ks
          /\ aPr' = aPr
          /\ aR' = aR
          /\ asyncReaders' = asyncReaders
          /\ aDelivered' = aDelivered
          /\ aIssued' = aIssued
     /\ \A i \in DOMAIN ks' : \A j \in 1..Len(ks'[i]) :
          \E l \in 1..Len(aIssued') :
            aIssued'[l].stub = i /\ aIssued'[l].k = ks'[i][j]
     /\ \A j \in 1..Len(aDelivered') : \E l \in 1..Len(aIssued') :
          aIssued'[l].k = aDelivered'[j][1]
    ]_vars

\* with one call pending, a call through the second stub has failed while
\* writing its arguments, and a step() has been taken since
C35_Witness ==
  /\ aFailed = 1
  /\ outb = <<2>> \o ToLE(1, 4) \o <<1>> \o <<2>> \o ToLE(2, 4)
  /\ aIssued = <<[stub |-> 1, k |-> 1]>>
  /\ aDelivered = <<<<1, ReplyVal(I16, 1)>>>>
  /\ ks = [i \in Readers |-> <<>>]

\* C36: on every stream of a length and that many key/value pairs, keys
\* repeated or not, the resumable map reader returns the map the blocking
\* reader returns and takes the same bytes
C36_SameMap ==
  cRet = "true" =>
    /\ r = read(cT, Sock(write(mapType(cT), cX), FALSE)).v
    /\ cTaken = Len(write(mapType(cT), cX))

\* C37: makeConnection tries the candidates in order, returns the first socket
\* that connects and throws only when none connected; when it returns or
\* throws, every socket it created other than the one returned is closed
C37_Dial ==
  mcPc \in {"returned", "threw"} =>
    /\ \A i \in 1..Len(mcLog) : mcLog[i][1] = i
    /\ \A i \in 1..Len(mcLog) :
         mcLog[i][3] = "connected" <=>
           (mcPc = "returned" /\ i = Len(mcLog) /\ mcRet = mcLog[i][2])
    /\ mcPc = "returned" => mcLog # <<>> /\ mcLog[Len(mcLog)][3] = "connected"
    /\ mcPc = "threw" /\ mcAddrs # <<>> => Len(mcLog) = Len(mcAddrs)
    /\ mcOpen = IF mcPc = "returned" THEN {mcRet} ELSE {}

\* C33: no continuation of a call issued before a reconnect is invoked after
\* it: each reply delivered goes to the continuation of the oldest call issued
\* through its stub since the last reconnect and not yet delivered
C33_AfterReconnect ==
  [][\A j \in (Len(aDelivered) + 1)..Len(aDelivered') :
       \E l \in (lIssued + 1)..Len(aIssued) :
         /\ aIssued[l].k = aDelivered'[j][1]
         /\ aDelivered'[j][2] = ReplyVal(AsyncStubs[aIssued[l].stub].R, aIssued[l].k)
         /\ \A m \in (lIssued + 1)..(l - 1) :
              aIssued[m].stub = aIssued[l].stub =>
                \E d \in 1..(j - 1) : aDelivered'[d][1] = aIssued[m].k
    ]_vars

\* C34: a stub of a live client with no call outstanding on the current socket
\* (each such call has an entry in the scheduler's queue, which a reconnect
\* empties) has a freshly prepared reader state and a value-initialised result
C34_IdleStubFresh ==
  (lPc = "live" /\ closes[this_s] = 0) =>
    \A i \in Readers :
      C22_Entries(i) = 0 =>
        /\ aPr[i] = Fresh(AsyncStubs[i].R)
        /\ aR[i] = Default(AsyncStubs[i].R)

\* C31: when the peer sends every reply, nothing fails and step() runs for
\* each readable event and at no other time, no reply received in full stays
\* undelivered: once the peer has sent all it has to send and no readable
\* event is left to serve, which is how things stay unless the owner makes
\* another call, the continuation of every call issued has been invoked and
\* no request is pending
C31_Delivery ==
  (peerq = <<>> /\ ~readable) =>
    /\ \A l \in 1..Len(aIssued) :
         \E j \in 1..Len(aDelivered) : aDelivered[j][1] = aIssued[l].k
    /\ pendingRequests = 0

\* the calls of cs, in order, not yet delivered, made through stub i (any stub
\* when i is 0)
RECURSIVE C32_Undelivered(_, _)
C32_Undelivered(cs, i) ==
  IF cs = <<>> THEN <<>>
  ELSE (IF /\ i \in {0, Head(cs).stub}
           /\ \A j \in 1..Len(aDelivered) : aDelivered[j][1] # Head(cs).k
        THEN <<Head(cs)>> ELSE <<>>) \o C32_Undelivered(Tail(cs), i)

\* C32: when continuations invoked inside step() make calls on the session,
\* every continuation is invoked at most once and with the reply to its own
\* call, and the scheduler's queue and each stub's continuations hold exactly
\* the calls not yet delivered, in the order they were made: a call made from
\* a continuation stands behind every earlier undelivered call
C32_Reentrancy ==
  /\ \A j, l \in 1..Len(aDelivered) :
       aDelivered[j][1] = aDelivered[l][1] => j = l
  /\ \A j \in 1..Len(aDelivered) : \E l \in 1..Len(aIssued) :
       /\ aIssued[l].k = aDelivered[j][1]
       /\ aDelivered[j][2] = ReplyVal(AsyncStubs[aIssued[l].stub].R, aIssued[l].k)
  /\ asyncReaders = [j \in 1..Len(C32_Undelivered(aIssued, 0)) |->
                       C32_Undelivered(aIssued, 0)[j].stub]
  /\ \A i \in Readers :
       ks[i] = [j \in 1..Len(C32_Undelivered(aIssued, i)) |->
                  C32_Undelivered(aIssued, i)[j].k]

\* a step() has delivered the reply to the second call, whose continuation has
\* made the third call through the same stub, and has gone on to read for it
C32_Witness ==
  /\ aLog = << <<"operator()", 1, "returned">>, <<"readAndFinish", 1, "true">>,
               <<"readAndFinish", 1, "false">> >>
  /\ Len(aDelivered) = 2
  /\ aDelivered[2][1] = 2
  /\ ks[1] = <<3>>
  /\ asyncReaders = <<1>>

====
